---- MODULE Spec2Model ----
(***************************************************************************)
(* State-machine model of the Bunjang <-> Shopify bridge:                  *)
(*   - the webhook router (verifyWebhook and the topic handlers),          *)
(*   - the inventory service (syncBunjangInventoryToShopify,               *)
(*     checkAndSyncBunjangInventory, performFullInventorySync),            *)
(*   - the order service (processShopifyOrderForBunjang,                   *)
(*     syncBunjangOrderStatuses).                                          *)
(* Every `await` of the JavaScript source is one action: the remote call   *)
(* takes effect and the synchronous code that follows it runs up to the    *)
(* next `await`.  Concurrent invocations interleave at these points only.  *)
(***************************************************************************)
EXTENDS Integers, Sequences, FiniteSets, TLC

VARIABLES
    webhookSecret,      \* config.shopify.webhookSecret ("" when not configured)
    active,             \* the invocations that may be started in this run
    req,                \* per invocation: the inbound request / job
    hpc,                \* per invocation: the await it is suspended at
    loc,                \* per invocation: local variables of the handler
    resp,               \* per invocation: HTTP status sent (0 = none yet)
    bunjangQuantity,    \* Platform B: quantity of each product
    shopifyInventory,   \* Platform A: published inventoryQuantity of each product
    syncedProducts,     \* Linkage Store: the SyncedProduct document of each product
    effects,            \* history: every remote call / store access made by a handler
    casLog,             \* history: every completed call of checkAndSyncBunjangInventory
    ledger,             \* history: the quantity under atomic decrement / restore
    overlapped,         \* history: two handlers were in flight at the same time
    shopifyOrder,       \* the ExternalOrder handed to processShopifyOrderForBunjang
    orderEnv,           \* the jobs the worker runs and the error codes Platform B uses
    orderTags,          \* Platform A: the tags of the ExternalOrder
    orderMetafields,    \* Platform A: the metafields of the ExternalOrder (key -> value)
    bunjangOrders,      \* Platform B: the marketplace orders created, oldest first
    createRequests,     \* history: every payload submitted to createBunjangOrderV2
    jpc,                \* per job: the await processShopifyOrderForBunjang is suspended at
    jloc,               \* per job: its local variables
    pollInput,          \* the (startDate, endDate) syncBunjangOrderStatuses was called with
    totalPages,         \* Platform B: the page count it reports for the window
    ppc,                \* the await syncBunjangOrderStatuses is suspended at
    ploc,               \* its local variables
    pageRequests        \* history: every request sent to getBunjangOrders, oldest first

invVars == <<webhookSecret, active, req, hpc, loc, resp, bunjangQuantity,
             shopifyInventory, syncedProducts, effects, casLog, ledger, overlapped>>

orderVars == <<shopifyOrder, orderEnv, orderTags, orderMetafields, bunjangOrders, createRequests,
               jpc, jloc>>

pollVars == <<pollInput, totalPages, ppc, ploc, pageRequests>>

vars == <<invVars, orderVars, pollVars>>

-----------------------------------------------------------------------------
(* Bounds of the model.                                                    *)

MaxStock == 2       \* largest quantity Platform A / Platform B start with
MaxQty == 2         \* largest quantity of a line item
MaxItems == 1       \* most line items in one webhook payload
MaxSigLen == 3      \* longest X-Shopify-Hmac-Sha256 header, in characters
MaxLineItems == 2   \* most line items of an ExternalOrder
MaxDays == 16       \* longest status window requested from the poller, in days
MaxMsOffset == 1    \* largest millisecond offset of a window boundary
MaxPages == 2       \* largest page count Platform B reports
MaxOrdersPerPage == 2   \* most marketplace orders on one result page
MaxOrderItems == 1  \* most items of one marketplace order
MaxBatch == 2       \* most pairs in one call of batchSyncInventory

-----------------------------------------------------------------------------
(* Values.                                                                 *)

Procs == {"h1", "h2"}
Pids == {101, 102}                          \* Platform B product ids
ShopifyProducts == {"sp1", "sp2"}           \* the products webhook payloads name:
                                            \* sp1 is linked to 101, sp2 is not linked
LinkOf(p) == IF p = 101 THEN "sp1" ELSE "sp3"   \* the Platform A product of a ProductLink
NoPid == 0
UnlinkedPid == 999                          \* a product id the Linkage Store has no document for
Unset == -2                                 \* a local variable not assigned yet

Max(a, b) == IF a >= b THEN a ELSE b

\* JavaScript `x || 0` on a number.
OrZero(x) == IF x = 0 THEN 0 ELSE x

-----------------------------------------------------------------------------
(* Signatures.  A digest is a sequence of "bytes"; its base64 text is a    *)
(* sequence of characters.  Alphabet characters carry data, "=" is the     *)
(* padding character and " " stands for whitespace.                        *)

Alphabet == {"A", "B"}
Chars == Alphabet \cup {"=", " "}
RawBodies == {"A", "B"}         \* "A" is a JSON document, "B" is not valid JSON
NoBody == ""
NoSecret == ""

SeqsUpTo(S, n) == UNION {[1..k -> S] : k \in 0..n}

\* crypto.createHmac('sha256', key).update(msg).digest(): a keyed digest,
\* distinct for distinct (key, msg).
HmacSha256(key, msg) == <<key, msg>>

\* digest('base64'): the data characters followed by the padding of a 32-byte digest.
Base64Encode(bytes) == bytes \o <<"=">>

RECURSIVE Base64Decode(_)
\* Buffer.from(text, 'base64'): characters outside the alphabet are skipped,
\* decoding stops at the first padding character, padding is optional.
Base64Decode(text) ==
    IF text = <<>> THEN <<>>
    ELSE IF Head(text) = "=" THEN <<>>
    ELSE IF Head(text) \in Alphabet THEN <<Head(text)>> \o Base64Decode(Tail(text))
    ELSE Base64Decode(Tail(text))

\* crypto.timingSafeEqual on two buffers of equal length.
timingSafeEqual(a, b) == a = b

NoHeader == [present |-> FALSE, value |-> <<>>]
Headers == {NoHeader} \cup {[present |-> TRUE, value |-> v] : v \in SeqsUpTo(Chars, MaxSigLen)}

\* The header Platform A sends for rawBody under the shared secret.
SignedHeader(secret, rawBody) ==
    [present |-> TRUE, value |-> Base64Encode(HmacSha256(secret, rawBody))]

\* verifyWebhook comparing only the lengths of the two buffers.
verifyWebhookStatus_LengthOnly(r, secret) ==
    IF ~r.hmac.present \/ r.hmac.value = <<>> THEN 401
    ELSE IF r.rawBody = NoBody THEN 401
    ELSE IF secret = NoSecret THEN 500
    ELSE IF Len(Base64Decode(r.hmac.value))
              # Len(Base64Decode(Base64Encode(HmacSha256(secret, r.rawBody))))
    THEN 401
    ELSE IF ~r.bodyParsed /\ r.rawBody = "B" THEN 400
    ELSE 0

\* verifyWebhook answering 500 for a wrong signature.
verifyWebhookStatus_WrongStatus(r, secret) ==
    IF ~r.hmac.present \/ r.hmac.value = <<>> THEN 401
    ELSE IF r.rawBody = NoBody THEN 401
    ELSE IF secret = NoSecret THEN 500
    ELSE IF Base64Decode(r.hmac.value) # HmacSha256(secret, r.rawBody) THEN 500
    ELSE IF ~r.bodyParsed /\ r.rawBody = "B" THEN 400
    ELSE 0

\* verifyWebhook answering a missing secret like a wrong signature.
verifyWebhookStatus_MissingSecretIs401(r, secret) ==
    IF ~r.hmac.present \/ r.hmac.value = <<>> THEN 401
    ELSE IF r.rawBody = NoBody THEN 401
    ELSE IF secret = NoSecret THEN 401
    ELSE IF Base64Decode(r.hmac.value) # HmacSha256(secret, r.rawBody) THEN 401
    ELSE IF ~r.bodyParsed /\ r.rawBody = "B" THEN 400
    ELSE 0

\* verifyWebhook: the status it answers, or 0 when it calls next().
verifyWebhookStatus(r, secret) ==
    IF ~r.hmac.present \/ r.hmac.value = <<>> THEN 401
    ELSE IF r.rawBody = NoBody THEN 401
    ELSE IF secret = NoSecret THEN 500
    ELSE LET calculatedHmac == Base64Encode(HmacSha256(secret, r.rawBody))
             hmacBuffer == Base64Decode(r.hmac.value)
             calculatedBuffer == Base64Decode(calculatedHmac)
         IN  IF Len(hmacBuffer) # Len(calculatedBuffer)
                \/ ~timingSafeEqual(hmacBuffer, calculatedBuffer)
             THEN 401
             ELSE IF ~r.bodyParsed /\ r.rawBody = "B" THEN 400
             ELSE 0

-----------------------------------------------------------------------------
(* Webhook router and inventory service.                                   *)

TopicRoutes == {"orders/create", "orders/updated", "inventory_levels/update"}
Routes == TopicRoutes \cup {"test"}

Items == [product_id : ShopifyProducts, quantity : 0..MaxQty]
NoItem == [product_id |-> "sp2", quantity |-> 0]

NoReq == [route |-> "none", hmac |-> NoHeader, rawBody |-> NoBody, bodyParsed |-> FALSE]

NoResults == [totalProducts |-> 0, synced |-> 0, failed |-> 0, skipped |-> 0,
              lowStock |-> <<>>]

NoBatchResults == [success |-> 0, failed |-> 0, details |-> <<>>]

\* response: what the variant query of syncBunjangInventoryToShopify answered;
\* inventoryUpdates, updates: the argument of batchSyncInventory and what is
\* left of it; syncLog: history of the calls batchSyncInventory made;
\* lineItems: history of the line items a topic handler went through, each
\* with the quantities Shopify showed at that time.
InitLoc == [kind |-> "none", left |-> 0, item |-> NoItem, pid |-> NoPid,
            currentStock |-> Unset, target |-> Unset, caller |-> "none",
            fetched |-> Unset, mutated |-> FALSE, todo |-> <<>>,
            results |-> NoResults, outcome |-> "none",
            response |-> "none", inventoryUpdates |-> <<>>, updates |-> <<>>,
            batchResults |-> NoBatchResults, syncLog |-> <<>>,
            lineItems |-> <<>>]

\* The locals of one loop iteration go out of scope when the iteration ends.
EndIteration(l) ==
    [l EXCEPT !.item = NoItem, !.pid = NoPid, !.currentStock = Unset,
              !.target = Unset, !.caller = "none", !.fetched = Unset,
              !.mutated = FALSE, !.response = "none"]

Ctl(pc, l, status) == [pc |-> pc, loc |-> l, resp |-> status]

InFlight(h) == hpc[h] \notin {"idle", "responded", "done"}

\* `currentStock !== null` on the value checkAndSyncBunjangInventory returned.
NotNull(v) == v \in Int

\* SyncedProduct.findOne({ shopifyGid / shopifyData.id }): the linked Platform B
\* product id, NoPid when the Shopify product is not linked.
FindByShopifyProduct(sp) ==
    IF \E p \in Pids : syncedProducts[p].shopifyProduct = sp
    THEN CHOOSE p \in Pids : syncedProducts[p].shopifyProduct = sp
    ELSE NoPid

RECURSIVE SetToSeq(_)
SetToSeq(S) ==
    IF S = {} THEN <<>>
    ELSE LET x == CHOOSE y \in S : \A z \in S : y <= z
         IN  <<x>> \o SetToSeq(S \ {x})

Take(s, n) == IF Len(s) <= n THEN s ELSE SubSeq(s, 1, n)

\* The arguments batchSyncInventory is called with.
BatchInputs ==
    UNION {[1..n -> [pid : {101, UnlinkedPid}, quantity : 0..MaxStock]] : n \in 0..MaxBatch}

FullSyncCap == 1000
LowStockThreshold == 5

\* A loop that hands the event to the topic handler again instead of answering.
NextItem_BackToHandler(l) ==
    IF l.left = 0
    THEN {Ctl("handler", EndIteration(l), 0)}
    ELSE {Ctl("lookup", [EndIteration(l) EXCEPT !.left = @ - 1, !.item = it], 0) : it \in Items}

\* History: a line item and what Shopify showed when its iteration began.
LineItemEntry(it) == [item |-> it, published |-> shopifyInventory]

\* for (const lineItem of order.line_items || []): the next iteration, or the
\* 200 response after the last one.  The content of the next line item is
\* read from the payload when its iteration starts.
NextItem(l) ==
    IF l.left = 0
    THEN {Ctl("responded", EndIteration(l), 200)}
    ELSE {Ctl("lookup", [EndIteration(l) EXCEPT !.left = @ - 1, !.item = it,
                                                !.lineItems = Append(@, LineItemEntry(it))], 0) : it \in Items}

\* performFullInventorySync: the next product of the loop, or the return.
FsNext(l) ==
    IF l.todo = <<>>
    THEN {Ctl("done", [EndIteration(l) EXCEPT !.outcome = "returned"], 0)}
    ELSE {Ctl("cas_fetch", [EndIteration(l) EXCEPT !.pid = Head(l.todo), !.todo = Tail(l.todo)], 0)}

\* performFullInventorySync: `if (results.synced % 2 === 0) await sleep`.
FsThrottle(l) ==
    IF l.results.synced % 2 = 0 THEN {Ctl("fs_sleep", l, 0)} ELSE FsNext(l)

\* A decrement that is not floored at zero.
DecrementTarget_NoFloor(currentStock, quantity) == currentStock - quantity
\* A restore that forgets the ordered amount.
RestoreTarget_NoAmount(currentStock, quantity) == currentStock

\* The order-creation handler's target: Math.max(0, currentStock - quantity).
DecrementTarget(currentStock, quantity) == Max(0, currentStock - quantity)
\* The order-cancellation handler's target: currentStock + quantity.
RestoreTarget(currentStock, quantity) == currentStock + quantity
\* `if (currentStock !== null && currentStock >= 0)` of the order-creation handler.
CreateGuard(currentStock) == NotNull(currentStock) /\ currentStock >= 0
\* `if (currentStock !== null)` of the order-cancellation handler.
CancelGuard(currentStock) == NotNull(currentStock)
\* A full sync that takes the sentinel for a quantity.
FullSyncGuard_AcceptsSentinel(currentQuantity) == currentQuantity >= -1

\* `if (currentQuantity >= 0)` of performFullInventorySync.
FullSyncGuard(currentQuantity) == currentQuantity >= 0

CallSync(l, v, target) ==
    {Ctl("sync_find", [l EXCEPT !.currentStock = v, !.target = target,
                                !.caller = "handler"], 0)}

\* What the caller does with the value v that checkAndSyncBunjangInventory returned.
AfterCheckAndSync(l, v) ==
    CASE l.kind = "create" ->
            IF CreateGuard(v)
            THEN CallSync(l, v, DecrementTarget(v, l.item.quantity))
            ELSE NextItem(l)
      [] l.kind = "cancel" ->
            IF CancelGuard(v)
            THEN CallSync(l, v, RestoreTarget(v, l.item.quantity))
            ELSE NextItem(l)
      [] OTHER ->
            IF FullSyncGuard(v)
            THEN FsThrottle([l EXCEPT
                    !.results.synced = @ + 1,
                    !.results.lowStock =
                        IF v <= LowStockThreshold
                        THEN Append(@, [bunjangPid |-> l.pid, currentStock |-> v])
                        ELSE @])
            ELSE FsThrottle([l EXCEPT !.results.skipped = @ + 1])

\* What the caller does when the iteration's try block raised.
AfterRaise(l) ==
    IF l.kind \in {"create", "cancel"}
    THEN NextItem(l)
    ELSE FsThrottle([l EXCEPT !.results.failed = @ + 1])

\* checkAndSyncBunjangInventory with a fetch that returned nothing answers 0.
checkAndSyncResult_Zero(productDetails, quantity) ==
    IF productDetails = "null" THEN 0 ELSE OrZero(quantity)

\* checkAndSyncBunjangInventory: the value it returns for what
\* getBunjangProductDetails gave ("null": nothing; "detail": a product detail
\* with that quantity).
checkAndSyncResult(productDetails, quantity) ==
    IF productDetails = "null" THEN -1 ELSE OrZero(quantity)

\* The entry casLog gets when a call of checkAndSyncBunjangInventory completes.
CasEntry(h, l, fetch, outcome, value) ==
    [proc |-> h, pid |-> l.pid, fetch |-> fetch, quantity |-> l.fetched,
     outcome |-> outcome, value |-> value, mutated |-> l.mutated]

\* `!syncedProduct || !syncedProduct.shopifyGid` is false for pid.
HasLink(pid) == pid \in Pids /\ syncedProducts[pid].shopifyProduct # "none"

\* A comparison that finds the quantities different every time.
NeedsPush_Always(currentQuantity, target) == TRUE

\* `if (currentQuantity !== bunjangQuantity)`.
NeedsPush(currentQuantity, target) == currentQuantity # target

\* A variant query whose empty answer is taken for a product.
ReadVariantResult_AlwaysTrue(out) == IF out = "throw" THEN "throw" ELSE "true"

\* What syncBunjangInventoryToShopify returns without a push, for the answer
\* of the variant query ("variant", "none": no product or no variant, "throw").
ReadVariantResult(out) ==
    IF out = "throw" THEN "throw" ELSE IF out = "none" THEN "false" ELSE "true"

\* batchSyncInventory: the next pair of the loop, or the return.
BatchNext(l) ==
    IF l.updates = <<>>
    THEN {Ctl("done", [EndIteration(l) EXCEPT !.outcome = "returned"], 0)}
    ELSE {Ctl("sync_find", [EndIteration(l) EXCEPT !.pid = Head(l.updates).pid,
                                                  !.target = Head(l.updates).quantity,
                                                  !.caller = "batch",
                                                  !.updates = Tail(l.updates)], 0)}

\* History: the call of syncBunjangInventoryToShopify that just completed.
SyncLogEntry(l, out) ==
    [pid |-> l.pid, quantity |-> l.target, out |-> out, linked |-> HasLink(l.pid),
     response |-> l.response, pushed |-> l.mutated, saved |-> l.mutated /\ out = "true"]

\* A catch clause that records the failure and gives the batch up.
BatchReturn_Abort(l, out) ==
    LET m == [l EXCEPT !.syncLog = Append(@, SyncLogEntry(l, out))]
    IN  IF out = "throw"
        THEN {Ctl("done", [EndIteration(m) EXCEPT
                !.outcome = "returned",
                !.batchResults.failed = @ + 1,
                !.batchResults.details =
                    Append(@, [pid |-> l.pid, success |-> FALSE, error |-> "message"])], 0)}
        ELSE BatchNext([m EXCEPT
                !.batchResults.success = IF out = "true" THEN @ + 1 ELSE @,
                !.batchResults.failed = IF out = "true" THEN @ ELSE @ + 1,
                !.batchResults.details =
                    Append(@, [pid |-> l.pid, success |-> out = "true",
                               quantity |-> l.target])])

\* batchSyncInventory, lines 105-124: the call for the current pair returned
\* true or false, or raised.
BatchReturn(l, out) ==
    LET m == [l EXCEPT !.syncLog = Append(@, SyncLogEntry(l, out))]
    IN  IF out = "throw"
        THEN BatchNext([m EXCEPT
                !.batchResults.failed = @ + 1,
                !.batchResults.details =
                    Append(@, [pid |-> l.pid, success |-> FALSE, error |-> "message"])])
        ELSE BatchNext([m EXCEPT
                !.batchResults.success = IF out = "true" THEN @ + 1 ELSE @,
                !.batchResults.failed = IF out = "true" THEN @ ELSE @ + 1,
                !.batchResults.details =
                    Append(@, [pid |-> l.pid, success |-> out = "true",
                               quantity |-> l.target])])

\* syncBunjangInventoryToShopify completes with out ("true", "false", "throw"):
\* the continuation in its caller.
SyncReturn(l, out) ==
    CASE l.caller = "cas" ->
            IF out = "throw" THEN AfterRaise(l) ELSE AfterCheckAndSync(l, l.fetched)
      [] l.caller = "batch" -> BatchReturn(l, out)
      [] OTHER -> IF l.kind \in {"create", "cancel"} THEN NextItem(l) ELSE AfterRaise(l)

SyncReturnLog(h, l, out) ==
    IF l.caller = "cas"
    THEN {IF out = "throw" THEN CasEntry(h, l, "detail", "raised", 0)
                           ELSE CasEntry(h, l, "detail", "returned", l.fetched)}
    ELSE {}

\* One entry of effects.  An inventory push also records who asked for it and
\* the value checkAndSyncBunjangInventory had returned to that caller.
Effect(h, kind, l, qty) ==
    IF kind = "updateInventoryLevel"
    THEN [proc |-> h, kind |-> kind, pid |-> l.pid, qty |-> qty,
          by |-> IF l.caller = "cas" THEN "checkAndSync" ELSE l.kind,
          stock |-> l.currentStock]
    ELSE [proc |-> h, kind |-> kind, pid |-> NoPid, qty |-> 0, by |-> "", stock |-> Unset]

\* The quantity an atomic decrement / restore of the handler's line item gives.
\* It is counted when the handler publishes a target it computed from a
\* quantity it had really read (not from the -1 of a failed fetch).
Applied(l, led) ==
    IF l.caller = "handler" /\ l.currentStock >= 0
    THEN [qty |-> (IF led.n = 0 THEN l.target
                   ELSE IF l.kind = "create" THEN Max(0, led.qty - l.item.quantity)
                   ELSE led.qty + l.item.quantity),
          n |-> led.n + 1]
    ELSE led

Goto(h, c) ==
    /\ hpc' = [hpc EXCEPT ![h] = c.pc]
    /\ loc' = [loc EXCEPT ![h] = c.loc]
    /\ resp' = [resp EXCEPT ![h] = c.resp]

\* A webhook request arrives.
Receive(h, r) ==
    /\ req' = [req EXCEPT ![h] = r]
    /\ hpc' = [hpc EXCEPT ![h] = "received"]
    /\ overlapped' = (overlapped \/ \E g \in Procs \ {h} : InFlight(g))
    /\ UNCHANGED <<orderVars, pollVars, webhookSecret, active, loc, resp, bunjangQuantity, shopifyInventory,
                   syncedProducts, effects, casLog, ledger>>

\* Any request at all: any header, with or without a raw body.
ReceiveAny(h) ==
    /\ h \in active
    /\ hpc[h] = "idle"
    /\ \E route \in Routes, hm \in Headers, rb \in RawBodies \cup {NoBody}, bp \in BOOLEAN :
        /\ bp => rb = "A"
        /\ Receive(h, [route |-> route, hmac |-> hm, rawBody |-> rb, bodyParsed |-> bp])

\* A request Platform A signed with the shared secret.
ReceiveSigned(h) ==
    /\ h \in active
    /\ hpc[h] = "idle"
    /\ webhookSecret # NoSecret
    /\ \E route \in TopicRoutes :
        Receive(h, [route |-> route, hmac |-> SignedHeader(webhookSecret, "A"),
                    rawBody |-> "A", bodyParsed |-> TRUE])

\* router.post(<topic>, verifyWebhook, ...): the middleware answers or calls next().
verifyWebhook(h) ==
    /\ hpc[h] = "received"
    /\ req[h].route \in TopicRoutes
    /\ LET s == verifyWebhookStatus(req[h], webhookSecret)
       IN  IF s # 0 THEN Goto(h, Ctl("responded", loc[h], s))
                    ELSE Goto(h, Ctl("handler", loc[h], 0))
    /\ UNCHANGED <<orderVars, pollVars, webhookSecret, active, req, bunjangQuantity, shopifyInventory,
                   syncedProducts, effects, casLog, ledger, overlapped>>

\* router.post('/test', ...): registered without verifyWebhook, it only logs.
testEndpoint(h) ==
    /\ hpc[h] = "received"
    /\ req[h].route = "test"
    /\ Goto(h, Ctl("responded", loc[h], 200))
    /\ UNCHANGED <<orderVars, pollVars, webhookSecret, active, req, bunjangQuantity, shopifyInventory,
                   syncedProducts, effects, casLog, ledger, overlapped>>

\* The topic handler up to its first await.  body is what req.body holds:
\* an order object, or null (JSON.parse of the text "null").
topicHandler(h) ==
    /\ hpc[h] = "handler"
    /\ \E body \in {"order", "null"}, cancelled \in BOOLEAN, n \in 0..MaxItems :
        /\ body = "null" => ~req[h].bodyParsed
        /\ LET route == req[h].route
               l == [loc[h] EXCEPT !.left = n,
                        !.kind = IF route = "orders/create" THEN "create"
                                 ELSE IF route = "orders/updated" THEN "cancel"
                                 ELSE "none"]
           IN  IF body = "null"
               THEN Goto(h, Ctl("responded", loc[h], 500))
               ELSE IF route = "inventory_levels/update"
                       \/ (route = "orders/updated" /\ ~cancelled)
               THEN Goto(h, Ctl("responded", loc[h], 200))
               ELSE \E c \in NextItem(l) : Goto(h, c)
    /\ UNCHANGED <<orderVars, pollVars, webhookSecret, active, req, bunjangQuantity, shopifyInventory,
                   syncedProducts, effects, casLog, ledger, overlapped>>

\* await SyncedProduct.findOne({ $or: [...] }) of a topic handler.
handlerFindOne(h) ==
    /\ hpc[h] = "lookup"
    /\ effects' = effects \cup {Effect(h, "findOne", loc[h], 0)}
    /\ \E out \in {"found", "throw"} :
        LET l == loc[h]
            pid == FindByShopifyProduct(l.item.product_id)
        IN  IF out = "found" /\ pid # NoPid
            THEN Goto(h, Ctl("cas_fetch", [l EXCEPT !.pid = pid], 0))
            ELSE \E c \in NextItem(l) : Goto(h, c)
    /\ UNCHANGED <<orderVars, pollVars, webhookSecret, active, req, bunjangQuantity, shopifyInventory,
                   syncedProducts, casLog, ledger, overlapped>>

\* checkAndSyncBunjangInventory: await bunjangService.getBunjangProductDetails(pid).
checkAndSyncBunjangInventory(h) ==
    /\ hpc[h] = "cas_fetch"
    /\ effects' = effects \cup {Effect(h, "getBunjangProductDetails", loc[h], 0)}
    /\ \E out \in {"detail", "null", "throw"} :
        LET l == loc[h]
            currentQuantity == checkAndSyncResult("detail", bunjangQuantity[l.pid])
            sentinel == checkAndSyncResult("null", 0)
        IN  CASE out = "detail" ->
                    /\ Goto(h, Ctl("sync_find",
                            [l EXCEPT !.fetched = currentQuantity,
                                      !.target = currentQuantity,
                                      !.caller = "cas"], 0))
                    /\ casLog' = casLog
              [] out = "null" ->
                    /\ \E c \in AfterCheckAndSync(l, sentinel) : Goto(h, c)
                    /\ casLog' = casLog \cup {CasEntry(h, l, "null", "returned", sentinel)}
              [] OTHER ->
                    /\ \E c \in AfterRaise(l) : Goto(h, c)
                    /\ casLog' = casLog \cup {CasEntry(h, l, "throw", "raised", 0)}
    /\ UNCHANGED <<orderVars, pollVars, webhookSecret, active, req, bunjangQuantity, shopifyInventory,
                   syncedProducts, ledger, overlapped>>

\* syncBunjangInventoryToShopify: await SyncedProduct.findOne({ bunjangPid }).
syncFindOne(h) ==
    /\ hpc[h] = "sync_find"
    /\ effects' = effects \cup {Effect(h, "findOne", loc[h], 0)}
    /\ \E out \in {"found", "throw"} :
        LET l == loc[h]
            ret == IF out = "throw" THEN "throw" ELSE "false"
        IN  IF out = "found" /\ HasLink(l.pid)
            THEN /\ Goto(h, Ctl("sync_read", l, 0))
                 /\ casLog' = casLog
            ELSE /\ \E c \in SyncReturn(l, ret) : Goto(h, c)
                 /\ casLog' = casLog \cup SyncReturnLog(h, l, ret)
    /\ UNCHANGED <<orderVars, pollVars, webhookSecret, active, req, bunjangQuantity, shopifyInventory,
                   syncedProducts, ledger, overlapped>>

\* syncBunjangInventoryToShopify: await shopifyService.shopifyGraphqlRequest(query).
syncReadVariant(h) ==
    /\ hpc[h] = "sync_read"
    /\ effects' = effects \cup {Effect(h, "shopifyGraphqlRequest", loc[h], 0)}
    /\ \E out \in {"variant", "none", "throw"} :
        LET l == [loc[h] EXCEPT !.response = out]
            currentQuantity == OrZero(shopifyInventory[l.pid])
            ret == ReadVariantResult(out)
        IN  IF out = "variant" /\ NeedsPush(currentQuantity, l.target)
            THEN /\ Goto(h, Ctl("sync_push", l, 0))
                 /\ casLog' = casLog
                 /\ ledger' = ledger
            ELSE /\ \E c \in SyncReturn(l, ret) : Goto(h, c)
                 /\ casLog' = casLog \cup SyncReturnLog(h, l, ret)
                 /\ ledger' = IF out = "variant"
                              THEN [ledger EXCEPT ![l.pid] = Applied(l, @)]
                              ELSE ledger
    /\ UNCHANGED <<orderVars, pollVars, webhookSecret, active, req, bunjangQuantity, shopifyInventory,
                   syncedProducts, overlapped>>

\* syncBunjangInventoryToShopify: await shopifyService.updateInventoryLevel(...).
syncUpdateInventoryLevel(h) ==
    /\ hpc[h] = "sync_push"
    /\ \E out \in {"ok", "throw"} :
        LET l == loc[h]
        IN  IF out = "ok"
            THEN /\ shopifyInventory' = [shopifyInventory EXCEPT ![l.pid] = l.target]
                 /\ effects' = effects \cup {Effect(h, "updateInventoryLevel", l, l.target)}
                 /\ ledger' = [ledger EXCEPT ![l.pid] = Applied(l, @)]
                 /\ Goto(h, Ctl("sync_save", [l EXCEPT !.mutated = TRUE], 0))
                 /\ casLog' = casLog
            ELSE /\ UNCHANGED <<shopifyInventory, effects, ledger>>
                 /\ \E c \in SyncReturn(l, "throw") : Goto(h, c)
                 /\ casLog' = casLog \cup SyncReturnLog(h, l, "throw")
    /\ UNCHANGED <<orderVars, pollVars, webhookSecret, active, req, bunjangQuantity, syncedProducts, overlapped>>

\* syncBunjangInventoryToShopify: await SyncedProduct.updateOne(...).
syncUpdateOne(h) ==
    /\ hpc[h] = "sync_save"
    /\ \E out \in {"ok", "throw"} :
        LET l == loc[h]
            ret == IF out = "ok" THEN "true" ELSE "throw"
        IN  /\ syncedProducts' =
                   IF out = "ok"
                   THEN [syncedProducts EXCEPT ![l.pid].bunjangQuantity = l.target]
                   ELSE syncedProducts
            /\ effects' = IF out = "ok"
                          THEN effects \cup {Effect(h, "updateOne", l, l.target)}
                          ELSE effects
            /\ \E c \in SyncReturn(l, ret) : Goto(h, c)
            /\ casLog' = casLog \cup SyncReturnLog(h, l, ret)
    /\ UNCHANGED <<orderVars, pollVars, webhookSecret, active, req, bunjangQuantity, shopifyInventory,
                   ledger, overlapped>>

\* performFullInventorySync is started (by a timer or an operator).
performFullInventorySync(h) ==
    /\ h \in active
    /\ hpc[h] = "idle"
    /\ Goto(h, Ctl("fs_find", [loc[h] EXCEPT !.kind = "fullSync"], 0))
    /\ overlapped' = (overlapped \/ \E g \in Procs \ {h} : InFlight(g))
    /\ UNCHANGED <<orderVars, pollVars, webhookSecret, active, req, bunjangQuantity, shopifyInventory,
                   syncedProducts, effects, casLog, ledger>>

\* performFullInventorySync: await SyncedProduct.find({ syncStatus: 'SYNCED' }).limit(1000).
fullSyncFind(h) ==
    /\ hpc[h] = "fs_find"
    /\ effects' = effects \cup {Effect(h, "find", loc[h], 0)}
    /\ \E out \in {"found", "throw"} :
        LET l == loc[h]
            found == Take(SetToSeq({p \in Pids : syncedProducts[p].syncStatus = "SYNCED"}),
                          FullSyncCap)
        IN  IF out = "found"
            THEN \E c \in FsNext([l EXCEPT !.todo = found,
                                           !.results.totalProducts = Len(found)]) :
                    Goto(h, c)
            ELSE Goto(h, Ctl("done", [l EXCEPT !.outcome = "raised"], 0))
    /\ UNCHANGED <<orderVars, pollVars, webhookSecret, active, req, bunjangQuantity, shopifyInventory,
                   syncedProducts, casLog, ledger, overlapped>>

\* performFullInventorySync: the rate-limiting pause is over.
fullSyncSleep(h) ==
    /\ hpc[h] = "fs_sleep"
    /\ \E c \in FsNext(loc[h]) : Goto(h, c)
    /\ UNCHANGED <<orderVars, pollVars, webhookSecret, active, req, bunjangQuantity, shopifyInventory,
                   syncedProducts, effects, casLog, ledger, overlapped>>

\* batchSyncInventory(inventoryUpdates) is called: lines 97-104.
batchSyncInventory(h) ==
    /\ h \in active
    /\ hpc[h] = "idle"
    /\ \E inventoryUpdates \in BatchInputs :
        \E c \in BatchNext([loc[h] EXCEPT !.kind = "batch",
                                          !.inventoryUpdates = inventoryUpdates,
                                          !.updates = inventoryUpdates]) :
            Goto(h, c)
    /\ overlapped' = (overlapped \/ \E g \in Procs \ {h} : InFlight(g))
    /\ UNCHANGED <<orderVars, pollVars, webhookSecret, active, req, bunjangQuantity, shopifyInventory,
                   syncedProducts, effects, casLog, ledger>>

InventoryStep(h) ==
    \/ handlerFindOne(h)
    \/ checkAndSyncBunjangInventory(h)
    \/ syncFindOne(h)
    \/ syncReadVariant(h)
    \/ syncUpdateInventoryLevel(h)
    \/ syncUpdateOne(h)

-----------------------------------------------------------------------------
(* Order service: processShopifyOrderForBunjang.                           *)

Jobs == {"j1", "j2"}

\* A SKU is a sequence of characters; <<>> stands for a line item without SKU.
LinkPrefix == <<"B", "J", "-">>
Skus == {<<"B", "J", "-", "1">>, <<"B", "J", "-", "2">>, <<"X", "-", "9">>, <<>>}

startsWith(s, prefix) == Len(s) >= Len(prefix) /\ SubSeq(s, 1, Len(prefix)) = prefix
substring(s, from) == SubSeq(s, from + 1, Len(s))

\* A test that takes every line item with a SKU for a linked one.
IsLinkedSku_AnySku(sku) == sku # <<>>

\* The negation of `!item.sku || !item.sku.startsWith('BJ-')`.
IsLinkedSku(sku) == ~(sku = <<>> \/ ~startsWith(sku, LinkPrefix))

OrderId == 987
OrderGid == "gid://shopify/Order/987"

ValidOrders ==
    {[kind |-> "order", id |-> OrderId, gid |-> OrderGid, isArray |-> TRUE, line_items |-> li] :
        li \in SeqsUpTo(Skus, MaxLineItems) \ {<<>>}}

InvalidOrders ==
    { [kind |-> "null", id |-> 0, gid |-> "", isArray |-> FALSE, line_items |-> <<>>],
      [kind |-> "order", id |-> 0, gid |-> OrderGid, isArray |-> TRUE,
       line_items |-> <<<<"B", "J", "-", "1">>>>],
      [kind |-> "order", id |-> OrderId, gid |-> "", isArray |-> TRUE,
       line_items |-> <<<<"B", "J", "-", "1">>>>],
      [kind |-> "order", id |-> OrderId, gid |-> OrderGid, isArray |-> FALSE,
       line_items |-> <<>>],
      [kind |-> "order", id |-> OrderId, gid |-> OrderGid, isArray |-> TRUE,
       line_items |-> <<>>] }

\* The validation looking at the id and the line items only.
ValidateOrder_NoGidCheck(o) ==
    IF o.kind = "null" THEN "TypeError"
    ELSE IF o.id = 0 \/ ~o.isArray \/ Len(o.line_items) = 0
    THEN "ValidationError"
    ELSE "ok"

\* Lines 20-27: reading shopifyOrder.id of a null order raises a TypeError; an
\* order without id, global id or line items raises the ValidationError.
ValidateOrder(o) ==
    IF o.kind = "null" THEN "TypeError"
    ELSE IF o.id = 0 \/ o.gid = "" \/ ~o.isArray \/ Len(o.line_items) = 0
    THEN "ValidationError"
    ELSE "ok"

\* Tags are template strings; a tag is the tuple of its parts.
OrderIdentifierPrefix == "bungjang_order_"
IdentifierTag(o) == <<OrderIdentifierPrefix, ToString(o.id)>>
ErrorIdentifierTag(o) == <<OrderIdentifierPrefix, ToString(o.id), "_Error">>
PidTag(pid, suffix) == <<"PID-", pid, suffix>>
PlacedTag == <<"BunjangOrderPlaced">>
BunjangOrderIdTag(id) == <<"BunjangOrderID-", ToString(id)>>
LowPointBalanceTag(balance) == <<"LowPointBalance-", ToString(balance)>>

KnownErrorCodes ==
    {"PRODUCT_NOT_FOUND", "PRODUCT_SOLD_OUT", "PRODUCT_ON_HOLD", "INVALID_PRODUCT_PRICE",
     "INVALID_PRODUCT_QTY", "POINT_SHORTAGE", "INVALID_SELF_PURCHASE",
     "BLOCKED_BY_OPPONENT", "BLOCKED_BY_SELF"}
NoErrorCode == ""
AllErrorCodes == KnownErrorCodes \cup {"SOME_OTHER_CODE", NoErrorCode}

\* The switch without its PRODUCT_ON_HOLD and BLOCKED_BY_SELF cases.
ErrorTagSuffix_FirstCaseOnly(errorCode) ==
    IF errorCode = NoErrorCode THEN "CreateFail"
    ELSE CASE errorCode \in {"PRODUCT_NOT_FOUND", "PRODUCT_SOLD_OUT"} -> "NotAvailable"
           [] errorCode = "INVALID_PRODUCT_PRICE" -> "PriceChanged"
           [] errorCode = "INVALID_PRODUCT_QTY" -> "OutOfStock"
           [] errorCode = "POINT_SHORTAGE" -> "InsufficientPoints"
           [] errorCode = "INVALID_SELF_PURCHASE" -> "SelfPurchase"
           [] errorCode = "BLOCKED_BY_OPPONENT" -> "Blocked"
           [] OTHER -> errorCode

\* The switch of lines 125-160: the suffix of the failure tag for an error code.
ErrorTagSuffix(errorCode) ==
    IF errorCode = NoErrorCode THEN "CreateFail"
    ELSE CASE errorCode \in {"PRODUCT_NOT_FOUND", "PRODUCT_SOLD_OUT", "PRODUCT_ON_HOLD"}
                -> "NotAvailable"
           [] errorCode = "INVALID_PRODUCT_PRICE" -> "PriceChanged"
           [] errorCode = "INVALID_PRODUCT_QTY" -> "OutOfStock"
           [] errorCode = "POINT_SHORTAGE" -> "InsufficientPoints"
           [] errorCode = "INVALID_SELF_PURCHASE" -> "SelfPurchase"
           [] errorCode \in {"BLOCKED_BY_OPPONENT", "BLOCKED_BY_SELF"} -> "Blocked"
           [] OTHER -> errorCode

Prices == {50000}
ShippingFees == {0, 3000}
Details == [price : Prices, shippingFee : ShippingFees]
NoDetail == [price |-> 0, shippingFee |-> 0]
NoPayload == [product |-> [id |-> <<>>, price |-> 0], deliveryPrice |-> 0]

LowBalanceThreshold == 1000000
Balances == {LowBalanceThreshold - 1, LowBalanceThreshold}

\* orderMapper.mapShopifyItemToBunjangOrderPayload: the payload for a line item
\* and the live product detail.
mapShopifyItemToBunjangOrderPayload(pid, detail) ==
    [product |-> [id |-> pid, price |-> detail.price], deliveryPrice |-> detail.shippingFee]

\* A createBunjangOrderV2 response counts as a success whatever it carries.
ResponseHasId_Always(response) == TRUE

\* `if (bunjangApiResponse && bunjangApiResponse.id)`.
ResponseHasId(response) == response.present /\ response.id # 0

NoWrite == [tags |-> {}, metafields |-> {}]

InitJob == [i |-> 0, pid |-> <<>>, payload |-> NoPayload, actualFee |-> 0,
            write |-> NoWrite, onFail |-> "none", then |-> "none",
            ids |-> <<>>, flag |-> FALSE, attempted |-> {},
            result |-> [success |-> FALSE, hasIds |-> FALSE, bunjangOrderIds |-> <<>>],
            error |-> "none", detail |-> NoDetail, calls |-> <<>>]

JCtl(pc, l) == [pc |-> pc, loc |-> l]

\* The locals of one loop iteration go out of scope when the iteration ends.
EndItem(l) ==
    [l EXCEPT !.pid = <<>>, !.payload = NoPayload, !.actualFee = 0, !.write = NoWrite,
              !.onFail = "none", !.then = "none", !.detail = NoDetail]

\* History: the remote call `call` was made for the current line item; ok tells
\* whether it resolved, code is the domain error code a rejection carried.
Called(l, call, ok, code) ==
    [l EXCEPT !.calls = Append(@, [call |-> call, item |-> l.i, ok |-> ok, code |-> code])]

\* The payload is submitted with the delivery price the mapper computed.
ApplyZeroDeliveryFee_Keep(payload) == payload

\* bunjangOrderPayload.deliveryPrice = 0.
ApplyZeroDeliveryFee(payload) == [payload EXCEPT !.deliveryPrice = 0]

\* Lines 180-186: the value processShopifyOrderForBunjang returns.
ReturnValue(l) ==
    IF l.flag
    THEN [success |-> TRUE, hasIds |-> TRUE, bunjangOrderIds |-> l.ids]
    ELSE [success |-> FALSE, hasIds |-> FALSE, bunjangOrderIds |-> <<>>]

\* The for loop from index l.i + 1 on: unlinked line items are skipped; the next
\* linked one is handled (its first await is the product-detail fetch); after
\* the last line item the function returns.
NextLineItem(o, l) ==
    LET rest == {k \in (l.i + 1)..Len(o.line_items) : IsLinkedSku(o.line_items[k])}
    IN  IF rest = {}
        THEN LET e == EndItem(l)
             IN  JCtl("returned", [e EXCEPT !.i = Len(o.line_items), !.result = ReturnValue(e)])
        ELSE LET k == CHOOSE x \in rest : \A y \in rest : x <= y
             IN  JCtl("fetch", [EndItem(l) EXCEPT !.i = k,
                                    !.pid = substring(o.line_items[k], 3),
                                    !.attempted = @ \cup {k}])

\* await shopifyService.updateOrder({ id, tags, metafields }) is the next step:
\* onFail names the catch clause that handles its failure, then what follows it.
UpdateOrder(l, tags, metafields, onFail, then) ==
    JCtl("update", [l EXCEPT !.write = [tags |-> tags, metafields |-> metafields],
                             !.onFail = onFail, !.then = then])

\* The catch clause going on to the next line item without writing a tag.
InnerCatch_NoTag(o, l, errorCode) == NextLineItem(o, l)

\* catch (apiError): lines 123-170.
InnerCatch(o, l, errorCode) ==
    UpdateOrder(l, {ErrorIdentifierTag(o), PidTag(l.pid, ErrorTagSuffix(errorCode))}, {},
                "outer", "next")

\* catch (error): lines 172-177.
OuterCatch(o, l) ==
    UpdateOrder(l, {ErrorIdentifierTag(o), PidTag(l.pid, "Exception")}, {},
                "propagate", "next")

JGoto(j, c) ==
    /\ jpc' = [jpc EXCEPT ![j] = c.pc]
    /\ jloc' = [jloc EXCEPT ![j] = c.loc]

\* shopifyService.updateOrder: the tags are added to the order's tags, each
\* metafield replaces the one of the same key.
updateOrderTags(tags, write) == tags \cup write.tags
updateOrderMetafields(metafields, write) ==
    {m \in metafields : \A w \in write.metafields : w.key # m.key} \cup write.metafields

\* The order worker calls processShopifyOrderForBunjang(shopifyOrder): lines 19-42.
processShopifyOrderForBunjang(j) ==
    /\ jpc[j] = "idle"
    /\ j \in orderEnv.jobs
    /\ LET v == ValidateOrder(shopifyOrder)
       IN  IF v # "ok"
           THEN JGoto(j, JCtl("thrown", [jloc[j] EXCEPT !.error = v]))
           ELSE JGoto(j, NextLineItem(shopifyOrder, jloc[j]))
    /\ UNCHANGED <<invVars, pollVars, shopifyOrder, orderEnv, orderTags, orderMetafields,
                   bunjangOrders, createRequests>>

\* await bunjangService.getBunjangProductDetails(bunjangPid), then the mapper: lines 53-76.
getBunjangProductDetails(j) ==
    /\ jpc[j] = "fetch"
    /\ \E out \in {"detail", "null", "throw"}, d \in Details, m \in {"payload", "null", "throw"} :
        LET l == Called(jloc[j], "getBunjangProductDetails", out # "throw", NoErrorCode)
            o == shopifyOrder
            payload == mapShopifyItemToBunjangOrderPayload(l.pid, d)
        IN  CASE out = "throw" -> JGoto(j, OuterCatch(o, l))
              [] out = "null" ->
                    JGoto(j, UpdateOrder(l, {ErrorIdentifierTag(o), PidTag(l.pid, "NotFound")},
                                         {}, "outer", "next"))
              [] out = "detail" /\ m = "throw" -> JGoto(j, OuterCatch(o, l))
              [] out = "detail" /\ m = "null" ->
                    JGoto(j, UpdateOrder(l, {ErrorIdentifierTag(o), PidTag(l.pid, "MapFail")},
                                         {}, "outer", "next"))
              [] OTHER ->
                    JGoto(j, JCtl("create",
                        [l EXCEPT !.detail = d,
                                  !.actualFee = OrZero(d.shippingFee),
                                  !.payload = ApplyZeroDeliveryFee(payload)]))
    /\ UNCHANGED <<invVars, pollVars, shopifyOrder, orderEnv, orderTags, orderMetafields,
                   bunjangOrders, createRequests>>

\* await bunjangService.createBunjangOrderV2(payload): lines 78-95 and 119-160.
createBunjangOrderV2(j) ==
    /\ jpc[j] = "create"
    /\ createRequests' = createRequests \cup {jloc[j].payload}
    /\ \E out \in {"created", "noId", "nothing", "throw"}, errorCode \in orderEnv.codes :
        LET l == Called(jloc[j], "createBunjangOrderV2", out # "throw",
                        IF out = "throw" THEN errorCode ELSE NoErrorCode)
            o == shopifyOrder
            newId == Len(bunjangOrders) + 1
            response == CASE out = "created" -> [present |-> TRUE, id |-> newId]
                          [] out = "noId" -> [present |-> TRUE, id |-> 0]
                          [] OTHER -> [present |-> FALSE, id |-> 0]
        IN  IF out = "throw"
            THEN /\ JGoto(j, InnerCatch(o, l, errorCode))
                 /\ bunjangOrders' = bunjangOrders
            ELSE /\ bunjangOrders' =
                      IF out = "created"
                      THEN Append(bunjangOrders,
                                  [id |-> newId, pid |-> l.pid, item |-> l.i, job |-> j])
                      ELSE bunjangOrders
                 /\ IF ResponseHasId(response)
                    THEN JGoto(j, UpdateOrder(
                            [l EXCEPT !.ids = Append(@, ToString(response.id)), !.flag = TRUE],
                            {PlacedTag, IdentifierTag(o), BunjangOrderIdTag(response.id)},
                            { [key |-> "order_id", value |-> ToString(response.id)],
                              [key |-> "ordered_pid", value |-> l.pid],
                              [key |-> "ordered_item_price_krw",
                               value |-> ToString(l.payload.product.price)],
                              [key |-> "api_sent_shipping_fee_krw",
                               value |-> ToString(l.payload.deliveryPrice)],
                              [key |-> "actual_bunjang_shipping_fee_krw",
                               value |-> ToString(l.actualFee)] },
                            "inner", "balance"))
                    ELSE JGoto(j, UpdateOrder(l,
                            {ErrorIdentifierTag(o), PidTag(l.pid, "NoOrderId")}, {},
                            "inner", "next"))
    /\ UNCHANGED <<invVars, pollVars, shopifyOrder, orderEnv, orderTags, orderMetafields>>

\* await shopifyService.updateOrder(...): every tag / metafield write of the function.
updateOrder(j) ==
    /\ jpc[j] = "update"
    /\ \E out \in {"ok", "throw"} :
        LET l == Called(jloc[j], "updateOrder", out = "ok", NoErrorCode)
            o == shopifyOrder
        IN  IF out = "ok"
            THEN /\ orderTags' = updateOrderTags(orderTags, l.write)
                 /\ orderMetafields' = updateOrderMetafields(orderMetafields, l.write)
                 /\ IF l.then = "balance"
                    THEN JGoto(j, JCtl("balance", l))
                    ELSE JGoto(j, NextLineItem(o, l))
            ELSE /\ UNCHANGED <<orderTags, orderMetafields>>
                 /\ CASE l.onFail = "inner" -> JGoto(j, InnerCatch(o, l, NoErrorCode))
                      [] l.onFail = "outer" -> JGoto(j, OuterCatch(o, l))
                      [] l.onFail = "balance" -> JGoto(j, NextLineItem(o, l))
                      [] OTHER -> JGoto(j, JCtl("thrown", [EndItem(l) EXCEPT !.error = "Error"]))
    /\ UNCHANGED <<invVars, pollVars, shopifyOrder, orderEnv, bunjangOrders, createRequests>>

\* await bunjangService.getBunjangPointBalance(): lines 100-118.
getBunjangPointBalance(j) ==
    /\ jpc[j] = "balance"
    /\ \E out \in {"balance", "null", "throw"}, balance \in Balances :
        LET l == Called(jloc[j], "getBunjangPointBalance", out # "throw", NoErrorCode)
        IN  IF out = "balance" /\ balance < LowBalanceThreshold
            THEN JGoto(j, UpdateOrder(l, {LowPointBalanceTag(balance)}, {}, "balance", "next"))
            ELSE JGoto(j, NextLineItem(shopifyOrder, l))
    /\ UNCHANGED <<invVars, pollVars, shopifyOrder, orderEnv, orderTags, orderMetafields,
                   bunjangOrders, createRequests>>

-----------------------------------------------------------------------------
(* Order service: syncBunjangOrderStatuses and                              *)
(* updateShopifyOrderFromBunjangStatus.                                     *)

MsPerDay == 86400000
MaxWindowDays == 15
PageSize == 100

\* A date argument is an instant in milliseconds or an Invalid Date.
InvalidDate == [valid |-> FALSE, ms |-> 0]
Instant(ms) == [valid |-> TRUE, ms |-> ms]
StartDates == {Instant(e) : e \in 0..MaxMsOffset} \cup {InvalidDate}
EndDates ==
    {Instant(d * MsPerDay + e) : d \in {0} \cup ((MaxDays - 2)..MaxDays), e \in 0..MaxMsOffset}
        \cup {InvalidDate}

\* Date.prototype.toISOString keeps the instant to the millisecond; new Date(iso)
\* reads it back.
toISOString(date) == [iso |-> date.ms]
ParseISO(s) == s.iso

\* The window check with the difference truncated to whole days.
ExceedsMaxWindow_WholeDays(startDateUTC, endDateUTC) ==
    (ParseISO(endDateUTC) - ParseISO(startDateUTC)) \div MsPerDay > MaxWindowDays

\* diffDays = (end - start) / (1000 * 60 * 60 * 24); diffDays > 15. The quotient
\* is a fraction, so the comparison is the one of the millisecond difference.
ExceedsMaxWindow(startDateUTC, endDateUTC) ==
    ParseISO(endDateUTC) - ParseISO(startDateUTC) > MaxWindowDays * MsPerDay

FulfillmentStatuses == {"SHIP_READY", "IN_TRANSIT", "DELIVERY_COMPLETED"}
ConfirmStatuses == {"PURCHASE_CONFIRM"}
CancelStatuses == {"CANCEL_REQUESTED_BEFORE_SHIPPING", "REFUNDED", "RETURN_REQUESTED",
                   "RETURNED"}
OtherStatuses == {"PAYMENT_RECEIVED"}
Statuses == FulfillmentStatuses \cup ConfirmStatuses \cup CancelStatuses \cup OtherStatuses

MarketplaceOrderIds == {1, 2}
MarketplaceOrders ==
    [id : MarketplaceOrderIds, orderItems : SeqsUpTo(Statuses, MaxOrderItems)]
NoMarketplaceOrder == [id |-> 0, orderItems |-> <<>>]
\* A page holds no order, any one order, or several orders each of which has
\* no item or one item awaiting purchase confirmation.
PagedOrders == [id : MarketplaceOrderIds, orderItems : SeqsUpTo(ConfirmStatuses, 1)]
PageData ==
    SeqsUpTo(MarketplaceOrders, 1)
        \cup UNION {[1..n -> PagedOrders] : n \in 2..MaxOrdersPerPage}

UndefinedPages == [defined |-> FALSE, value |-> 0]
PageCounts == {[defined |-> TRUE, value |-> n] : n \in 0..MaxPages} \cup {UndefinedPages}

\* A loop condition that asks for one page more than Platform B reports.
HasMore_OnePageMore(page, pages) == pages.defined /\ page < pages.value

\* hasMore = page < (ordersResponse.totalPages - 1); with totalPages undefined
\* the right-hand side is NaN and the comparison is false.
HasMore(page, pages) == pages.defined /\ page < pages.value - 1

Now == "now"
BunjangStatusTag(status) == <<"BunjangStatus-", status>>
BunjangOrderStatusTag(id, status) == <<"BunjangOrder-", ToString(id), status>>

\* A switch that tags the order with every status it sees.
StatusWrite_TagsEveryStatus(id, status) ==
    [tags |-> {BunjangStatusTag(status), BunjangOrderStatusTag(id, status)},
     metafields |-> IF status \in ConfirmStatuses
                    THEN { [key |-> "purchase_confirmed", value |-> "true"],
                           [key |-> "purchase_confirmed_at", value |-> Now] }
                    ELSE {}]

\* The write the switch of lines 300-337 makes for a status.
StatusWrite(id, status) ==
    IF status \in ConfirmStatuses
    THEN [tags |-> {},
          metafields |-> { [key |-> "purchase_confirmed", value |-> "true"],
                           [key |-> "purchase_confirmed_at", value |-> Now] }]
    ELSE IF status \in CancelStatuses
    THEN [tags |-> {BunjangStatusTag(status), BunjangOrderStatusTag(id, status)},
          metafields |-> {}]
    ELSE NoWrite

\* Lines 340-353.
StampWrite(status) ==
    [tags |-> {},
     metafields |-> { [key |-> "last_status_sync", value |-> Now],
                      [key |-> "last_bunjang_status", value |-> status] }]

NoDateString == [iso |-> 0]
InitPoll == [startDateUTC |-> NoDateString, endDateUTC |-> NoDateString, page |-> 0,
             hasMore |-> FALSE, syncedCount |-> 0, errorCount |-> 0, data |-> <<>>,
             order |-> NoMarketplaceOrder, items |-> <<>>, status |-> "",
             outcome |-> "none", received |-> 0, raised |-> 0, lastResponse |-> "none"]

PCtl(pc, l) == [pc |-> pc, loc |-> l]

PGoto(c) ==
    /\ ppc' = c.pc
    /\ ploc' = c.loc

\* Lines 237-242: the end of one turn of the while loop.
AfterPage(l) ==
    LET m == [l EXCEPT !.hasMore = HasMore(l.page, totalPages), !.page = @ + 1,
                       !.data = <<>>, !.order = NoMarketplaceOrder, !.items = <<>>,
                       !.status = ""]
    IN  IF m.hasMore THEN PCtl("page", m) ELSE PCtl("returned", [m EXCEPT !.outcome = "success"])

\* for (const order of ordersResponse.data): the next order of the page.
NextOrder(l) ==
    IF l.data = <<>>
    THEN AfterPage(l)
    ELSE PCtl("lookup", [l EXCEPT !.order = Head(l.data), !.data = Tail(l.data),
                                  !.items = <<>>, !.status = ""])

\* A catch clause that leaves the rest of the page out.
OrderFailed_SkipsPage(l) == AfterPage([l EXCEPT !.errorCount = @ + 1])

\* updateShopifyOrderFromBunjangStatus returned / raised for the current order.
OrderSynced(l) == NextOrder([l EXCEPT !.syncedCount = @ + 1])
OrderFailed(l) == NextOrder([l EXCEPT !.errorCount = @ + 1])

\* History: a call of updateShopifyOrderFromBunjangStatus raised.
Raised(l) == [l EXCEPT !.raised = @ + 1]

\* for (const orderItem of bunjangOrder.orderItems): the next item and its first await.
NextOrderItem(l) ==
    IF l.items = <<>>
    THEN OrderSynced(l)
    ELSE LET status == Head(l.items)
             m == [l EXCEPT !.status = status, !.items = Tail(l.items)]
         IN  IF status \in FulfillmentStatuses \cup ConfirmStatuses \cup CancelStatuses
             THEN PCtl("action", m)
             ELSE PCtl("stamp", m)

\* A query that finds the ExternalOrder whatever its tags are.
OrderFound_Always(bunjangOrderId, tags) == TRUE

\* The query `tag:"BunjangOrderID-<id>"` of lines 281-287 has an edge: the
\* ExternalOrder carries that tag.
OrderFound(bunjangOrderId, tags) == BunjangOrderIdTag(bunjangOrderId) \in tags

\* A catch clause that ends the run with the counts reached so far.
PageFetchFailed_ReturnsCounts(l) ==
    PCtl("returned", [l EXCEPT !.outcome = "success", !.lastResponse = "throw"])

\* catch (error) of lines 243-246: a rejected getBunjangOrders call is logged
\* and raised again.
PageFetchFailed(l) ==
    PCtl("thrown", [l EXCEPT !.outcome = "Error", !.lastResponse = "throw"])

\* The status job calls syncBunjangOrderStatuses(startDate, endDate): lines 196-217.
syncBunjangOrderStatuses ==
    /\ ppc = "idle"
    /\ IF ~pollInput.startDate.valid \/ ~pollInput.endDate.valid
       THEN PGoto(PCtl("thrown", [ploc EXCEPT !.outcome = "RangeError"]))
       ELSE LET startDateUTC == toISOString(pollInput.startDate)
                endDateUTC == toISOString(pollInput.endDate)
            IN  IF ExceedsMaxWindow(startDateUTC, endDateUTC)
                THEN PGoto(PCtl("thrown", [ploc EXCEPT !.outcome = "ValidationError"]))
                ELSE PGoto(PCtl("page", [ploc EXCEPT !.startDateUTC = startDateUTC,
                                                     !.endDateUTC = endDateUTC,
                                                     !.page = 0, !.hasMore = TRUE]))
    /\ UNCHANGED <<invVars, orderVars, pollInput, totalPages, pageRequests>>

\* await bunjangService.getBunjangOrders({...}): lines 218-225.
getBunjangOrders ==
    /\ ppc = "page"
    /\ pageRequests' = Append(pageRequests,
            [statusUpdateStartDate |-> ploc.startDateUTC,
             statusUpdateEndDate |-> ploc.endDateUTC,
             page |-> ploc.page, size |-> PageSize])
    /\ \E out \in {"page", "null", "noData", "throw"}, data \in PageData :
        CASE out = "throw" -> PGoto(PageFetchFailed(ploc))
          [] out \in {"null", "noData"} ->
                PGoto(PCtl("returned", [ploc EXCEPT !.outcome = "success",
                                                    !.lastResponse = "empty"]))
          [] OTHER -> PGoto(NextOrder([ploc EXCEPT !.data = data,
                                                   !.received = @ + Len(data),
                                                   !.lastResponse = "page"]))
    /\ UNCHANGED <<invVars, orderVars, pollInput, totalPages>>

\* await shopifyService.shopifyGraphqlRequest(query, { query: searchQuery }): lines 281-293.
findOrderByBunjangId ==
    /\ ppc = "lookup"
    /\ \E out \in {"edges", "throw"} :
        IF out = "throw"
        THEN PGoto(OrderFailed(Raised(ploc)))
        ELSE IF ~OrderFound(ploc.order.id, orderTags)
        THEN PGoto(OrderSynced(ploc))
        ELSE PGoto(NextOrderItem([ploc EXCEPT !.items = ploc.order.orderItems]))
    /\ UNCHANGED <<invVars, orderVars, pollInput, totalPages, pageRequests>>

\* The await inside the switch: updateShopifyFulfillmentStatus (a stub that only
\* logs) or shopifyService.updateOrder: lines 300-337.
statusAction ==
    /\ ppc = "action"
    /\ \E out \in {"ok", "throw"} :
        LET write == StatusWrite(ploc.order.id, ploc.status)
        IN  IF ploc.status \in FulfillmentStatuses \/ out = "ok"
            THEN /\ orderTags' = updateOrderTags(orderTags, write)
                 /\ orderMetafields' = updateOrderMetafields(orderMetafields, write)
                 /\ PGoto(PCtl("stamp", ploc))
            ELSE /\ UNCHANGED <<orderTags, orderMetafields>>
                 /\ PGoto(OrderFailed(Raised(ploc)))
    /\ UNCHANGED <<invVars, shopifyOrder, orderEnv, bunjangOrders, createRequests, jpc, jloc,
                   pollInput, totalPages, pageRequests>>

\* await shopifyService.updateOrder({ id, metafields: [last_status_sync, ...] }): lines 340-353.
stampStatus ==
    /\ ppc = "stamp"
    /\ \E out \in {"ok", "throw"} :
        IF out = "ok"
        THEN /\ orderTags' = orderTags
             /\ orderMetafields' = updateOrderMetafields(orderMetafields, StampWrite(ploc.status))
             /\ PGoto(NextOrderItem(ploc))
        ELSE /\ UNCHANGED <<orderTags, orderMetafields>>
             /\ PGoto(OrderFailed(Raised(ploc)))
    /\ UNCHANGED <<invVars, shopifyOrder, orderEnv, bunjangOrders, createRequests, jpc, jloc,
                   pollInput, totalPages, pageRequests>>

\* The quantities of the products pids are free, every other product has 0.
Quantities(pids) ==
    {[p \in Pids |-> IF p \in pids THEN q[p] ELSE 0] : q \in [pids -> 0..MaxStock]}

\* procs: the invocations that may start; pids: the products in play, every
\* other product is out of stock and its ProductLink is not SYNCED.
InitInventory(procs, secrets, pids) ==
    /\ webhookSecret \in secrets
    /\ active = procs
    /\ req = [h \in Procs |-> NoReq]
    /\ hpc = [h \in Procs |-> "idle"]
    /\ loc = [h \in Procs |-> InitLoc]
    /\ resp = [h \in Procs |-> 0]
    /\ bunjangQuantity \in Quantities(pids)
    /\ shopifyInventory \in Quantities(pids)
    /\ syncedProducts \in
         {[p \in Pids |-> [shopifyProduct |-> LinkOf(p), bunjangQuantity |-> shopifyInventory[p],
                           syncStatus |-> IF p \in pids THEN st[p] ELSE "ERROR"]] :
            st \in [pids -> {"SYNCED", "ERROR"}]}
    /\ effects = {}
    /\ casLog = {}
    /\ ledger = [p \in Pids |-> [qty |-> 0, n |-> 0]]
    /\ overlapped = FALSE

\* No webhook is received and no full sync runs.
InventoryIdle ==
    /\ webhookSecret = "A"
    /\ active = {}
    /\ req = [h \in Procs |-> NoReq]
    /\ hpc = [h \in Procs |-> "idle"]
    /\ loc = [h \in Procs |-> InitLoc]
    /\ resp = [h \in Procs |-> 0]
    /\ bunjangQuantity = [p \in Pids |-> 0]
    /\ shopifyInventory = [p \in Pids |-> 0]
    /\ syncedProducts = [p \in Pids |-> [shopifyProduct |-> LinkOf(p), bunjangQuantity |-> 0,
                                          syncStatus |-> "SYNCED"]]
    /\ effects = {}
    /\ casLog = {}
    /\ ledger = [p \in Pids |-> [qty |-> 0, n |-> 0]]
    /\ overlapped = FALSE

InitOrders(orders, jobs, codes) ==
    /\ shopifyOrder \in orders
    /\ orderEnv = [jobs |-> jobs, codes |-> codes]
    /\ orderTags = {}
    /\ orderMetafields = {}
    /\ bunjangOrders = <<>>
    /\ createRequests = {}
    /\ jpc = [j \in Jobs |-> "idle"]
    /\ jloc = [j \in Jobs |-> InitJob]

\* The order worker runs no job.
OrdersIdle == InitOrders({CHOOSE o \in InvalidOrders : o.kind = "null"}, {}, {})

NoPollInput == [startDate |-> InvalidDate, endDate |-> InvalidDate]

\* The status job is not scheduled.
PollIdle ==
    /\ pollInput = NoPollInput
    /\ totalPages = UndefinedPages
    /\ ppc = "off"
    /\ ploc = InitPoll
    /\ pageRequests = <<>>

\* Webhook requests of any kind, one at a time.
InitWebhook == InitInventory({"h1"}, {"A", NoSecret}, {101}) /\ OrdersIdle /\ PollIdle
NextWebhook ==
    \E h \in Procs :
        \/ ReceiveAny(h)
        \/ verifyWebhook(h)
        \/ testEndpoint(h)
        \/ topicHandler(h)
        \/ InventoryStep(h)
SpecWebhook == InitWebhook /\ [][NextWebhook]_vars
\* The same under fairness: the event loop resumes every pending await and
\* runs the middleware and the handler of a request it has accepted.
SpecWebhookFair == InitWebhook /\ [][NextWebhook]_vars /\ WF_vars(NextWebhook)

\* Signed order events and full syncs, two in flight.
InitInv == InitInventory(Procs, {"A"}, {101}) /\ OrdersIdle /\ PollIdle
NextInv ==
    \E h \in Procs :
        \/ ReceiveSigned(h)
        \/ verifyWebhook(h)
        \/ topicHandler(h)
        \/ InventoryStep(h)
        \/ performFullInventorySync(h)
        \/ fullSyncFind(h)
        \/ fullSyncSleep(h)
SpecInv == InitInv /\ [][NextInv]_vars

\* One run of performFullInventorySync over two products, nothing else running.
InitFullSync == InitInventory({"h1"}, {"A"}, Pids) /\ OrdersIdle /\ PollIdle
NextFullSync ==
    \E h \in Procs :
        \/ performFullInventorySync(h)
        \/ fullSyncFind(h)
        \/ fullSyncSleep(h)
        \/ checkAndSyncBunjangInventory(h)
        \/ syncFindOne(h)
        \/ syncReadVariant(h)
        \/ syncUpdateInventoryLevel(h)
        \/ syncUpdateOne(h)
SpecFullSync == InitFullSync /\ [][NextFullSync]_vars

\* One call of batchSyncInventory, nothing else running.
InitBatch == InitInventory({"h1"}, {"A"}, {101}) /\ OrdersIdle /\ PollIdle
NextBatch ==
    \E h \in Procs :
        \/ batchSyncInventory(h)
        \/ syncFindOne(h)
        \/ syncReadVariant(h)
        \/ syncUpdateInventoryLevel(h)
        \/ syncUpdateOne(h)
SpecBatch == InitBatch /\ [][NextBatch]_vars

\* One invocation of processShopifyOrderForBunjang on any order.
RepresentativeCodes == {"POINT_SHORTAGE", "SOME_OTHER_CODE", NoErrorCode}
InitOrder ==
    /\ InventoryIdle
    /\ InitOrders(ValidOrders \cup InvalidOrders, {"j1"}, RepresentativeCodes)
    /\ PollIdle
OrderStep(j) ==
    \/ getBunjangProductDetails(j)
    \/ createBunjangOrderV2(j)
    \/ updateOrder(j)
    \/ getBunjangPointBalance(j)
NextOrderSvc ==
    \E j \in Jobs :
        \/ processShopifyOrderForBunjang(j)
        \/ OrderStep(j)
SpecOrder == InitOrder /\ [][NextOrderSvc]_vars

\* One invocation on an order of one line item, the create-order call failing
\* with any of the error codes.
InitOrderCodes ==
    /\ InventoryIdle
    /\ InitOrders({o \in ValidOrders : Len(o.line_items) = 1}, {"j1"}, AllErrorCodes)
    /\ PollIdle
SpecOrderCodes == InitOrderCodes /\ [][NextOrderSvc]_vars

\* The dispatcher delivers the job of one order twice; the two invocations may overlap.
InitRedelivery ==
    /\ InventoryIdle
    /\ InitOrders({o \in ValidOrders : Len(o.line_items) = 1}, Jobs, {NoErrorCode})
    /\ PollIdle
SpecRedelivery == InitRedelivery /\ [][NextOrderSvc]_vars

PolledOrder == CHOOSE o \in ValidOrders : Len(o.line_items) = 1

\* One run of syncBunjangOrderStatuses over an order that carries the tag of
\* marketplace order 1, or over an untagged one.
InitPollRun ==
    /\ InventoryIdle
    /\ shopifyOrder = PolledOrder
    /\ orderEnv = [jobs |-> {}, codes |-> {}]
    /\ orderTags \in {{}, {PlacedTag, IdentifierTag(PolledOrder), BunjangOrderIdTag(1)}}
    /\ orderMetafields = {}
    /\ bunjangOrders = <<>>
    /\ createRequests = {}
    /\ jpc = [j \in Jobs |-> "idle"]
    /\ jloc = [j \in Jobs |-> InitJob]
    /\ pollInput \in [startDate : StartDates, endDate : EndDates]
    /\ totalPages \in PageCounts
    /\ ppc = "idle"
    /\ ploc = InitPoll
    /\ pageRequests = <<>>
NextPoll ==
    \/ syncBunjangOrderStatuses
    \/ getBunjangOrders
    \/ findOrderByBunjangId
    \/ statusAction
    \/ stampStatus
SpecPoll == InitPollRun /\ [][NextPoll]_vars

\* The same run with every remote call answering in the end: an await that is
\* pending is resumed.
SpecPollFair == InitPollRun /\ [][NextPoll]_vars /\ WF_vars(NextPoll)

-----------------------------------------------------------------------------
(* Properties of the webhook router and the inventory service.             *)

HandlerPcs == {"handler", "lookup", "cas_fetch", "sync_find", "sync_read",
               "sync_push", "sync_save"}

IsWebhook(h) == req[h].route \in TopicRoutes

\* The topic handler of request h has been entered.
ReachedHandler(h) ==
    \/ hpc[h] \in HandlerPcs
    \/ hpc[h] = "responded" /\ resp[h] \in {200, 500} /\ webhookSecret # NoSecret

\* The signature of request h is the HMAC of its raw body under the secret.
SignatureVerifies(h) ==
    /\ req[h].hmac.present
    /\ req[h].rawBody # NoBody
    /\ webhookSecret # NoSecret
    /\ Base64Decode(req[h].hmac.value) = HmacSha256(webhookSecret, req[h].rawBody)

\* The header of request h is, character for character, the base64 text of the HMAC.
SignatureTextEqual(h) ==
    /\ req[h].hmac.present
    /\ req[h].rawBody # NoBody
    /\ webhookSecret # NoSecret
    /\ req[h].hmac.value = Base64Encode(HmacSha256(webhookSecret, req[h].rawBody))

Verified(h) == hpc[h] \notin {"idle", "received"}

AllFinished == \A h \in Procs : hpc[h] \in {"responded", "done"}

Pushes == {e \in effects : e.kind = "updateInventoryLevel"}

\* C4: a webhook request makes no store access, no Platform B fetch and no
\* inventory push, and its topic handler is not entered, unless its signature
\* is the HMAC of its raw body under the configured secret.
C4_NoSideEffectBeforeVerification ==
    \A h \in Procs :
        IsWebhook(h) /\ (ReachedHandler(h) \/ \E e \in effects : e.proc = h)
            => SignatureVerifies(h)

C4_Witness ==
    \E h \in Procs :
        /\ IsWebhook(h) /\ SignatureVerifies(h)
        /\ \E e \in Pushes : e.proc = h

\* C5 as stated: a request without signature header or without raw body is
\* answered 401; with the secret configured, a request whose header text
\* differs from the base64 text of the HMAC is answered 401; a request enters
\* its handler only when the header text equals that base64 text.
C5_TextualSignatureOnly ==
    \A h \in Procs :
        IsWebhook(h) /\ Verified(h) =>
            /\ (~req[h].hmac.present \/ req[h].rawBody = NoBody) => resp[h] = 401
            /\ (webhookSecret # NoSecret /\ ~SignatureTextEqual(h)) => resp[h] = 401
            /\ ReachedHandler(h) => SignatureTextEqual(h)

\* C5 amended: a request without signature header or without raw body is
\* answered 401; with the secret configured, a request whose base64-decoded
\* header differs in length or content from the HMAC digest is answered 401;
\* a request enters its handler only when the decoded header equals the digest.
C5_DecodedSignatureOnly ==
    \A h \in Procs :
        IsWebhook(h) /\ Verified(h) =>
            /\ (~req[h].hmac.present \/ req[h].rawBody = NoBody) => resp[h] = 401
            /\ (webhookSecret # NoSecret /\ ~SignatureVerifies(h)) => resp[h] = 401
            /\ ReachedHandler(h) => SignatureVerifies(h)

C5_Witness ==
    \E h \in Procs :
        /\ IsWebhook(h) /\ Verified(h)
        /\ req[h].hmac.present /\ req[h].rawBody # NoBody /\ webhookSecret # NoSecret
        /\ Len(Base64Decode(req[h].hmac.value)) = 2
        /\ ~SignatureVerifies(h)
        /\ resp[h] = 401

\* C6: when order events for the same product were handled concurrently and all
\* handlers have finished, the published quantity is the one that applying every
\* decrement and every restore, one after the other, gives.
C6_NoLostUpdate ==
    AllFinished /\ overlapped =>
        \A p \in Pids : ledger[p].n >= 2 => shopifyInventory[p] = ledger[p].qty

\* C7: every quantity pushed to Platform A is >= 0.
C7_NoNegativePush == \A e \in Pushes : e.qty >= 0

\* C8 as stated: every call of checkAndSync whose Platform B fetch failed, by
\* returning nothing or by raising, returns -1 and has made no push and no
\* ProductLink update; a call that returns after a successful fetch returns the
\* quantity Platform B holds.
C8_SentinelOnEveryFailedFetch ==
    \A c \in casLog :
        /\ c.fetch \in {"null", "throw"} =>
               c.outcome = "returned" /\ c.value = -1 /\ ~c.mutated
        /\ (c.fetch = "detail" /\ c.outcome = "returned") =>
               c.value = bunjangQuantity[c.pid] /\ c.value >= 0

\* C8 amended: a call of checkAndSync whose fetch returned nothing returns -1
\* and has made no push and no ProductLink update; a call whose fetch raised
\* re-raises the error, returning no value, again without push or update; a
\* call that returns after a successful fetch returns the quantity Platform B holds.
C8_SentinelOnFailedFetch ==
    \A c \in casLog :
        /\ c.fetch = "null" => c.outcome = "returned" /\ c.value = -1 /\ ~c.mutated
        /\ c.fetch = "throw" => c.outcome = "raised" /\ ~c.mutated
        /\ (c.fetch = "detail" /\ c.outcome = "returned") =>
               c.value = bunjangQuantity[c.pid] /\ c.value >= 0

\* One call returned the sentinel and another re-raised a failed fetch.
C8_Witness ==
    /\ \E c \in casLog : c.fetch = "null" /\ c.outcome = "returned" /\ c.value = -1
    /\ \E c \in casLog : c.fetch = "throw" /\ c.outcome = "raised"

\* C9: no caller pushes a quantity after checkAndSync returned -1 to it.
C9_SentinelNeverPushed ==
    \A e \in Pushes : e.by \in {"create", "cancel", "fullSync"} => e.stock # -1

-----------------------------------------------------------------------------
(* Properties of the order service.                                        *)

\* The indices of the Bunjang-linked line items of an order.
LinkedItems(o) == {k \in 1..Len(o.line_items) : IsLinkedSku(o.line_items[k])}

JobFinished(j) == jpc[j] \in {"returned", "thrown"}

\* The marketplace orders whose id a create-order call of invocation j returned,
\* oldest first.
CreatedBy(j) ==
    LET Mine(r) == r.job = j
    IN  SelectSeq(bunjangOrders, Mine)

\* C1: on an order that passes validation processShopifyOrderForBunjang never
\* throws, whatever remote calls fail, and when it has finished every linked
\* line item of the order has been attempted.
C1_PerItemIsolation ==
    \A j \in Jobs :
        ValidateOrder(shopifyOrder) = "ok" =>
            /\ jpc[j] # "thrown"
            /\ JobFinished(j) => jloc[j].attempted = LinkedItems(shopifyOrder)

\* C2: no line item of the order has two marketplace orders on Platform B, also
\* when the job of the order is delivered twice.
C2_AtMostOneOrderPerLineItem ==
    \A a, b \in 1..Len(bunjangOrders) :
        bunjangOrders[a].item = bunjangOrders[b].item => a = b

\* C3: when processShopifyOrderForBunjang returns, success is true exactly when
\* a create-order call of this invocation returned an id, the returned list holds
\* the ids those calls returned, one per line item in line-item order, and a
\* failure result carries no id list.
C3_ResultReflectsCreatedOrders ==
    \A j \in Jobs :
        jpc[j] = "returned" =>
            LET created == CreatedBy(j)
                result == jloc[j].result
            IN  /\ result.success <=> Len(created) > 0
                /\ result.hasIds <=> result.success
                /\ result.bunjangOrderIds = [k \in 1..Len(created) |-> ToString(created[k].id)]
                /\ \A a, b \in 1..Len(created) : a < b => created[a].item < created[b].item

\* An invocation over two line items returned one id: the create-order response
\* for the other item carried none.
C3_Witness ==
    \E j \in Jobs :
        /\ jpc[j] = "returned"
        /\ jloc[j].result.success
        /\ Len(jloc[j].result.bunjangOrderIds) = 1
        /\ PidTag(<<"2">>, "NoOrderId") \in orderTags
        /\ Len(shopifyOrder.line_items) = 2

-----------------------------------------------------------------------------
(* Properties of the status poller.                                        *)

WindowMs == pollInput.endDate.ms - pollInput.startDate.ms
ValidWindow == pollInput.startDate.valid /\ pollInput.endDate.valid

\* C10: a call with end - start > 15 days fails with the ValidationError and has
\* sent no request to Platform B; every request sent carries a window of at
\* most 15 days.
C10_WindowCapBeforeRequest ==
    /\ (ValidWindow /\ WindowMs > MaxWindowDays * MsPerDay /\ ppc # "idle") =>
            /\ ppc = "thrown"
            /\ ploc.outcome = "ValidationError"
            /\ pageRequests = <<>>
    /\ \A k \in 1..Len(pageRequests) :
            ParseISO(pageRequests[k].statusUpdateEndDate)
                - ParseISO(pageRequests[k].statusUpdateStartDate) <= MaxWindowDays * MsPerDay

\* A window one millisecond above 15 days was refused.
C10_Witness ==
    /\ ValidWindow
    /\ WindowMs = MaxWindowDays * MsPerDay + 1
    /\ ppc = "thrown"
    /\ ploc.outcome = "ValidationError"
    /\ pageRequests = <<>>

\* A window of exactly 15 days was accepted and requested from Platform B.
C10_WitnessAtCap ==
    /\ ValidWindow
    /\ WindowMs = MaxWindowDays * MsPerDay
    /\ Len(pageRequests) > 0

-----------------------------------------------------------------------------
(* Further properties of the order service.                                *)

\* C11: a call on an order without id, without global id or without a non-empty
\* line-item list fails with the ValidationError: no line item is attempted, no
\* remote call is made, no marketplace order is created and no tag or metafield
\* is written.
C11_InvalidOrderAborts ==
    \A j \in Jobs :
        (shopifyOrder.kind = "order"
            /\ (shopifyOrder.id = 0 \/ shopifyOrder.gid = "" \/ ~shopifyOrder.isArray
                    \/ Len(shopifyOrder.line_items) = 0)
            /\ jpc[j] # "idle") =>
                /\ jpc[j] = "thrown"
                /\ jloc[j].error = "ValidationError"
                /\ jloc[j].attempted = {}
                /\ jloc[j].calls = <<>>
                /\ createRequests = {}
                /\ bunjangOrders = <<>>
                /\ orderTags = {}
                /\ orderMetafields = {}

\* An order with a linked line item but no global id was refused.
C11_Witness ==
    \E j \in Jobs :
        /\ jpc[j] = "thrown"
        /\ jloc[j].error = "ValidationError"
        /\ shopifyOrder.gid = ""
        /\ LinkedItems(shopifyOrder) # {}

\* Every updateOrder call invocation j made resolved.
WritesSucceeded(j) ==
    \A k \in 1..Len(jloc[j].calls) :
        jloc[j].calls[k].call = "updateOrder" => jloc[j].calls[k].ok

FailureSuffixes ==
    {"NotFound", "MapFail", "NoOrderId", "Exception"}
        \cup {ErrorTagSuffix(c) : c \in AllErrorCodes}

C12_WitnessSuccessFirst ==
    \E j \in Jobs :
        /\ jpc[j] = "returned"
        /\ WritesSucceeded(j)
        /\ Len(CreatedBy(j)) = 1
        /\ CreatedBy(j)[1].item = 1
        /\ PidTag(<<"2">>, "NotFound") \in orderTags
        /\ PlacedTag \in orderTags

\* C13: an invocation on a valid order none of whose line items has a linked
\* SKU returns success false, and no marketplace order, no Platform B call and
\* no tag or metadata write comes of it.
C13_NoLinkedItemNoEffect ==
    \A j \in Jobs :
        (shopifyOrder.kind = "order"
            /\ ValidateOrder(shopifyOrder) = "ok"
            /\ \A k \in 1..Len(shopifyOrder.line_items) :
                    ~startsWith(shopifyOrder.line_items[k], LinkPrefix)
            /\ jpc[j] # "idle") =>
                /\ jpc[j] = "returned"
                /\ ~jloc[j].result.success
                /\ jloc[j].calls = <<>>
                /\ jloc[j].attempted = {}
                /\ createRequests = {} /\ bunjangOrders = <<>>
                /\ orderTags = {} /\ orderMetafields = {}

\* A two-item order, one item without SKU and one with a foreign SKU, was
\* processed.
C13_Witness ==
    \E j \in Jobs :
        /\ jpc[j] = "returned"
        /\ shopifyOrder.line_items = <<<<>>, <<"X", "-", "9">>>>
        /\ ~jloc[j].result.success

\* C14: every payload submitted to create-order has delivery price 0, and once
\* the success write of a created order went through, the order's metadata
\* records the submitted fee 0 and the shipping fee of the product detail
\* fetched for the line item.
C14_ZeroDeliveryFee ==
    /\ \A payload \in createRequests : payload.deliveryPrice = 0
    /\ \A j \in Jobs :
        jpc[j] = "balance" =>
            /\ [key |-> "api_sent_shipping_fee_krw", value |-> "0"] \in orderMetafields
            /\ [key |-> "actual_bunjang_shipping_fee_krw",
                value |-> ToString(jloc[j].detail.shippingFee)] \in orderMetafields

\* An order was created for a product whose shipping fee is 3000 and the
\* success write went through.
C14_Witness ==
    \E j \in Jobs :
        /\ jpc[j] = "balance"
        /\ jloc[j].detail.shippingFee = 3000
        /\ createRequests # {}
        /\ [key |-> "actual_bunjang_shipping_fee_krw", value |-> "3000"] \in orderMetafields

\* The table of failure tags by error code, as pairs.
FailureTagTable ==
    { <<"PRODUCT_NOT_FOUND", "NotAvailable">>, <<"PRODUCT_SOLD_OUT", "NotAvailable">>,
      <<"PRODUCT_ON_HOLD", "NotAvailable">>, <<"INVALID_PRODUCT_PRICE", "PriceChanged">>,
      <<"INVALID_PRODUCT_QTY", "OutOfStock">>, <<"POINT_SHORTAGE", "InsufficientPoints">>,
      <<"INVALID_SELF_PURCHASE", "SelfPurchase">>, <<"BLOCKED_BY_OPPONENT", "Blocked">>,
      <<"BLOCKED_BY_SELF", "Blocked">>, <<"SOME_OTHER_CODE", "SOME_OTHER_CODE">>,
      <<NoErrorCode, "CreateFail">> }

\* The tags of the order that name product pid.
PidTags(pid) == {t \in orderTags : Len(t) = 3 /\ t[1] = "PID-" /\ t[2] = pid}

LastCall(j) == jloc[j].calls[Len(jloc[j].calls)]

\* C15: after a create-order call was rejected with error code c, the tag write
\* requested for the item is the error tag plus the one failure tag the table
\* gives for c, and when that write resolved it is the only tag on the order
\* that names the product.
C15_FailureTagByTable ==
    \A j \in Jobs :
        /\ (jpc[j] = "update" /\ jloc[j].calls # <<>>
                /\ LastCall(j).call = "createBunjangOrderV2" /\ ~LastCall(j).ok) =>
            \E row \in FailureTagTable :
                /\ row[1] = LastCall(j).code
                /\ jloc[j].write.tags =
                       {ErrorIdentifierTag(shopifyOrder), PidTag(jloc[j].pid, row[2])}
        /\ (jpc[j] = "returned" /\ Len(jloc[j].calls) = 3
                /\ jloc[j].calls[2].call = "createBunjangOrderV2" /\ ~jloc[j].calls[2].ok
                /\ jloc[j].calls[3].ok) =>
            \E row \in FailureTagTable :
                /\ row[1] = jloc[j].calls[2].code
                /\ LET pid == substring(shopifyOrder.line_items[jloc[j].calls[2].item], 3)
                   IN  PidTags(pid) = {PidTag(pid, row[2])}

\* A create-order call was rejected with PRODUCT_ON_HOLD and the order carries
\* the NotAvailable tag of the product.
C15_Witness ==
    \E j \in Jobs :
        /\ jpc[j] = "returned"
        /\ Len(jloc[j].calls) = 3
        /\ jloc[j].calls[2].code = "PRODUCT_ON_HOLD"
        /\ PidTag(<<"1">>, "NotAvailable") \in orderTags

-----------------------------------------------------------------------------
(* Further properties of the inventory service.                            *)

\* The calls of syncBunjangInventoryToShopify that completed, oldest first,
\* over all invocations of batchSyncInventory.
SyncCalls == UNION {{loc[h].syncLog[k] : k \in 1..Len(loc[h].syncLog)} : h \in Procs}

\* C16: syncBunjangInventoryToShopify returns true exactly when the link exists
\* and Platform A answered the variant query with a product variant, whether
\* or not it pushed; for a product without link it never returns true, pushes
\* nothing and changes nothing in the Linkage Store.
C16_TrueIffLinkedAndVariantRead ==
    \A e \in SyncCalls :
        /\ e.out = "true" => (e.linked /\ e.response = "variant")
        /\ (e.linked /\ e.response = "variant" /\ e.out # "throw") => e.out = "true"
        /\ ~e.linked => (e.out # "true" /\ ~e.pushed /\ ~e.saved)

\* C16 as stated: a call that returns, returns true exactly when the link exists.
C16_TrueIffLinked ==
    \A e \in SyncCalls :
        e.out # "throw" => (e.out = "true" <=> e.linked)

\* One batch saw a call return true after a push and a call return false for
\* a product without link.
C16_Witness ==
    \E h \in Procs :
        /\ hpc[h] = "done"
        /\ Len(loc[h].syncLog) = 2
        /\ loc[h].syncLog[1].out = "true" /\ loc[h].syncLog[1].pushed
        /\ ~loc[h].syncLog[2].linked /\ loc[h].syncLog[2].out = "false"

\* C17: of two consecutive calls of syncBunjangInventoryToShopify with the same
\* product id and the same quantity, nothing else running, at most one pushes
\* to Platform A; after a first call that returned true the second one neither
\* pushes nor writes to the Linkage Store.
C17_SyncIsIdempotent ==
    \A h \in Procs :
        \A k \in 1..(Len(loc[h].syncLog) - 1) :
            LET first == loc[h].syncLog[k]
                second == loc[h].syncLog[k + 1]
            IN  (first.pid = second.pid /\ first.quantity = second.quantity) =>
                    /\ ~(first.pushed /\ second.pushed)
                    /\ first.out = "true" => (~second.pushed /\ ~second.saved)

\* The first of two equal calls pushed and returned true, the second returned
\* true without a push.
C17_Witness ==
    \E h \in Procs :
        /\ Len(loc[h].syncLog) = 2
        /\ loc[h].inventoryUpdates[1] = loc[h].inventoryUpdates[2]
        /\ loc[h].syncLog[1].pushed /\ loc[h].syncLog[1].out = "true"
        /\ loc[h].syncLog[2].out = "true" /\ ~loc[h].syncLog[2].pushed
        /\ shopifyInventory[loc[h].syncLog[1].pid] = loc[h].syncLog[1].quantity

\* C18: when batchSyncInventory returns, details has one entry per input pair,
\* in input order, success + failed is the number of input pairs, and a call
\* that raised is recorded as a failure like one that returned false.
C18_BatchAccountsForEveryPair ==
    \A h \in Procs :
        LET l == loc[h]
            n == Len(l.inventoryUpdates) - Len(l.updates) - (IF hpc[h] = "done" THEN 0 ELSE 1)
        IN  l.kind = "batch" =>
                /\ hpc[h] = "done" => (l.outcome = "returned" /\ n = Len(l.inventoryUpdates))
                /\ Len(l.batchResults.details) = n
                /\ l.batchResults.success + l.batchResults.failed = n
                /\ Len(l.syncLog) = n
                /\ \A k \in 1..n :
                    /\ l.batchResults.details[k].pid = l.inventoryUpdates[k].pid
                    /\ l.batchResults.details[k].success = (l.syncLog[k].out = "true")
                /\ l.batchResults.failed =
                       Cardinality({k \in 1..n : l.syncLog[k].out # "true"})

\* A batch of two pairs returned after its first call raised and its second
\* call returned true.
C18_Witness ==
    \E h \in Procs :
        /\ hpc[h] = "done"
        /\ Len(loc[h].inventoryUpdates) = 2
        /\ loc[h].syncLog[1].out = "throw"
        /\ loc[h].syncLog[2].out = "true"
        /\ loc[h].batchResults.success = 1 /\ loc[h].batchResults.failed = 1

\* The calls of checkAndSyncBunjangInventory invocation h completed.
CasCalls(h) == {e \in casLog : e.proc = h}

\* C19: in a run of performFullInventorySync every completed
\* checkAndSyncBunjangInventory call is counted once: one that returned -1 in
\* skipped only, one that raised in failed only, any other in synced only;
\* when the run returns, every product found was counted, so totalProducts =
\* synced + failed + skipped; and lowStock holds only products whose call
\* returned a quantity of 0 or more, with that quantity.
C19_FullSyncAccounting ==
    \A h \in Procs :
        LET r == loc[h].results
        IN  loc[h].kind = "fullSync" =>
                /\ r.skipped = Cardinality({e \in CasCalls(h) :
                                                e.outcome = "returned" /\ e.value = -1})
                /\ r.failed = Cardinality({e \in CasCalls(h) : e.outcome = "raised"})
                /\ r.synced = Cardinality({e \in CasCalls(h) :
                                                e.outcome = "returned" /\ e.value # -1})
                /\ (hpc[h] = "done" /\ loc[h].outcome = "returned") =>
                        /\ r.totalProducts = r.synced + r.failed + r.skipped
                        /\ r.totalProducts =
                               Cardinality({p \in Pids : syncedProducts[p].syncStatus = "SYNCED"})
                /\ \A k \in 1..Len(r.lowStock) :
                        \E e \in CasCalls(h) :
                            /\ e.pid = r.lowStock[k].bunjangPid
                            /\ e.outcome = "returned"
                            /\ e.value >= 0
                            /\ e.value = r.lowStock[k].currentStock

\* A run over two products returned: the fetch of one product returned
\* nothing although its cached quantity is 0, the other was synced.
C19_Witness ==
    \E h \in Procs :
        /\ hpc[h] = "done" /\ loc[h].outcome = "returned"
        /\ loc[h].results.totalProducts = 2
        /\ loc[h].results.skipped = 1 /\ loc[h].results.synced = 1
        /\ \E e \in CasCalls(h) :
            /\ e.value = -1 /\ e.outcome = "returned"
            /\ syncedProducts[e.pid].bunjangQuantity = 0
        /\ Len(loc[h].results.lowStock) = 1

\* A run in which one call raised and one returned -1.
C19_WitnessFailed ==
    \E h \in Procs :
        /\ hpc[h] = "done" /\ loc[h].outcome = "returned"
        /\ loc[h].results.failed = 1 /\ loc[h].results.skipped = 1
        /\ loc[h].results.lowStock = <<>>

-----------------------------------------------------------------------------
(* Further properties of the status poller.                                *)

\* An order of the current page is being handled.
OrderInHand == ppc \in {"lookup", "action", "stamp"}

\* C20: every call of updateShopifyOrderFromBunjangStatus that raised is
\* counted as one error and nothing else, every marketplace order received in
\* a page is handled, still waits on its page or was counted, and after a page
\* was handled the run ends only when Platform B reports no further page.
C20_PerOrderIsolation ==
    /\ ploc.errorCount = ploc.raised
    /\ ploc.received =
           ploc.syncedCount + ploc.errorCount + Len(ploc.data)
               + (IF OrderInHand THEN 1 ELSE 0)
    /\ ppc = "returned" =>
        /\ ploc.data = <<>>
        /\ ploc.syncedCount + ploc.errorCount = ploc.received
        /\ ploc.lastResponse = "page" => ~HasMore(ploc.page - 1, totalPages)

\* Three orders came on two pages; handling one of them raised, the two others
\* were synced and the run returned.
C20_Witness ==
    /\ ppc = "returned"
    /\ Len(pageRequests) = 2
    /\ ploc.received = 3
    /\ ploc.errorCount = 1
    /\ ploc.syncedCount = 2

\* C21: a run in which a getBunjangOrders call was rejected, on whatever page,
\* has raised and never returns the counts; a run that returned has had no
\* rejected page request, also when some of its orders failed.
C21_PageFailureIsRaised ==
    /\ ploc.lastResponse = "throw" => (ppc = "thrown" /\ ploc.outcome = "Error")
    /\ ppc = "returned" => (ploc.outcome = "success" /\ ploc.lastResponse # "throw")

\* The request of the second page was rejected after an order of the first
\* page had been counted as an error.
C21_Witness ==
    /\ ppc = "thrown"
    /\ ploc.lastResponse = "throw"
    /\ Len(pageRequests) = 2
    /\ ploc.errorCount = 1

\* C22: when the tag query for a marketplace order answers and the
\* ExternalOrder does not carry its BunjangOrderID tag, the order is left: no
\* error is counted, no item of it is handled and no tag or metadata is written.
C22_UnknownOrderIsSkipped ==
    [][(ppc = "lookup"
            /\ BunjangOrderIdTag(ploc.order.id) \notin orderTags
            /\ ploc'.raised = ploc.raised) =>
                /\ ploc'.errorCount = ploc.errorCount
                /\ ploc'.syncedCount = ploc.syncedCount + 1
                /\ orderTags' = orderTags
                /\ orderMetafields' = orderMetafields
                /\ ppc' \notin {"action", "stamp"}]_vars

\* Two marketplace orders came for an ExternalOrder without tags; the run
\* returned without an error and without a write.
C22_Witness ==
    /\ ppc = "returned"
    /\ ploc.received = 2
    /\ ploc.syncedCount = 2 /\ ploc.errorCount = 0
    /\ orderTags = {} /\ orderMetafields = {}

-----------------------------------------------------------------------------
(* Further properties of the webhook router.                               *)

\* C23: once an orders/create request whose signature verifies has been
\* answered with success, a job for its order has been handed to the order
\* worker.
C23_AuthenticatedOrderIsDispatched ==
    \A h \in Procs :
        (req[h].route = "orders/create" /\ SignatureVerifies(h)
            /\ hpc[h] = "responded" /\ resp[h] = 200) =>
            (orderEnv.jobs # {} \/ \E j \in Jobs : jpc[j] # "idle")

\* The calls to Platform A and Platform B among the recorded calls.
RemoteCallKinds == {"getBunjangProductDetails", "shopifyGraphqlRequest", "updateInventoryLevel"}

\* C24: no call to Platform A or Platform B is made by the handling of a
\* webhook request, which ends with the response.
C24_NoRemoteCallOnRequestPath ==
    \A h \in Procs :
        IsWebhook(h) => \A e \in effects : e.proc = h => e.kind \notin RemoteCallKinds

\* Request h carries no usable signature header or no raw body.
Unsigned(h) == ~req[h].hmac.present \/ req[h].hmac.value = <<>> \/ req[h].rawBody = NoBody

\* C25 as stated: an answered orders/create request has got 401, 200 or 500;
\* with the secret configured, 401 when its signature does not verify.
C25_ThreeResponses ==
    \A h \in Procs :
        (req[h].route = "orders/create" /\ hpc[h] = "responded") =>
            /\ resp[h] \in {401, 200, 500}
            /\ (webhookSecret # NoSecret /\ ~SignatureVerifies(h)) => resp[h] = 401

\* C25 amended: an orders/create request is answered once, when its handling
\* ends: 401 exactly when it is unsigned or, with the secret configured, its
\* signature does not verify; 400 only when the signature verifies and the
\* body is not valid JSON; 200 only when the signature verifies; 500 only when
\* the secret is not configured or the handler of a verified request failed.
C25_ResponseContract ==
    \A h \in Procs :
        req[h].route = "orders/create" =>
            /\ resp[h] # 0 <=> hpc[h] = "responded"
            /\ hpc[h] = "responded" =>
                /\ resp[h] \in {401, 400, 200, 500}
                /\ resp[h] = 401 <=>
                       (Unsigned(h) \/ (webhookSecret # NoSecret /\ ~SignatureVerifies(h)))
                /\ resp[h] = 400 =>
                       (SignatureVerifies(h) /\ ~req[h].bodyParsed /\ req[h].rawBody = "B")
                /\ resp[h] = 200 => SignatureVerifies(h)
                /\ resp[h] = 500 => (webhookSecret = NoSecret \/ SignatureVerifies(h))

\* An orders/create request was answered 200 although the handling of its line
\* item had failed.
C25_Witness ==
    \E h \in Procs :
        /\ req[h].route = "orders/create"
        /\ hpc[h] = "responded" /\ resp[h] = 200
        /\ \E c \in casLog : c.proc = h /\ c.outcome = "raised"

\* An orders/create request whose signature verifies was answered 400.
C25_WitnessBadRequest ==
    \E h \in Procs :
        /\ req[h].route = "orders/create"
        /\ SignatureVerifies(h)
        /\ hpc[h] = "responded" /\ resp[h] = 400

\* C26 as stated: with the secret not configured every webhook request that
\* went through verification was answered 500.
C26_AlwaysMisconfiguration ==
    \A h \in Procs :
        (webhookSecret = NoSecret /\ IsWebhook(h) /\ Verified(h)) => resp[h] = 500

\* C26 amended: with the secret not configured every webhook request is
\* rejected by the verification and none enters its handler or makes a call;
\* a request with signature header and raw body is answered 500, one that lacks
\* either is answered 401.
C26_MisconfigurationWhenSigned ==
    \A h \in Procs :
        (webhookSecret = NoSecret /\ IsWebhook(h) /\ Verified(h)) =>
            /\ hpc[h] = "responded"
            /\ resp[h] = (IF Unsigned(h) THEN 401 ELSE 500)
            /\ \A e \in effects : e.proc # h

\* With the secret not configured, a request with header and body was answered 500.
C26_Witness ==
    \E h \in Procs :
        /\ webhookSecret = NoSecret
        /\ IsWebhook(h) /\ ~Unsigned(h)
        /\ hpc[h] = "responded" /\ resp[h] = 500

\* The number of pages a run asks for when Platform B reports the page count
\* totalPages: page 0 in any case.
PagesDue == IF totalPages.defined /\ totalPages.value > 1 THEN totalPages.value ELSE 1

\* The page requests so far are those of pages 0, 1, ... in this order, and
\* they are not more than the pages due; a run that returned after a page
\* with data has asked for every page due.
PagesInOrder ==
    /\ \A k \in 1..Len(pageRequests) : pageRequests[k].page = k - 1
    /\ Len(pageRequests) <= PagesDue
    /\ (ppc = "returned" /\ ploc.lastResponse = "page") => Len(pageRequests) = PagesDue

\* C27: with a fixed page count T the run asks for pages 0 .. T-1 in order,
\* each once (page 0 also when T is 0 or missing), and it ends: it returns or
\* raises.
C27_PaginationCoversAndEnds ==
    /\ []PagesInOrder
    /\ <>(ppc \in {"returned", "thrown"})

\* Platform B reported two pages; the run asked for page 0 and page 1 and
\* returned.
C27_Witness ==
    /\ totalPages.defined /\ totalPages.value = 2
    /\ ppc = "returned"
    /\ Len(pageRequests) = 2
    /\ pageRequests[2].page = 1

\* Platform B reported no page count; the run asked for page 0 and returned.
C27_WitnessNoCount ==
    /\ ~totalPages.defined
    /\ ppc = "returned"
    /\ ploc.lastResponse = "page"
    /\ Len(pageRequests) = 1

\* C28: after the action of an item's status has been taken, whether it went
\* through or failed, the stamp write for that item and its status is the next
\* step.
C28_StampAfterEveryItem ==
    [][ppc = "action" => (ppc' = "stamp" /\ ploc'.status = ploc.status)]_vars

\* ---------------------------------------------------------------------------
\* The action table of the status poller
\* ---------------------------------------------------------------------------

MetafieldKeys(metafields) == {m.key : m \in metafields}
ConfirmationKeys == {"purchase_confirmed", "purchase_confirmed_at"}

\* The step is the completed action of the status in hand.
ActionDone == ppc = "action" /\ ppc' = "stamp"

\* C29: a completed action for a purchase-confirmed item sets the confirmation
\* flag to "true" and the confirmation timestamp and adds no tag; for a
\* cancel-requested, refunded, return-requested or returned item it adds the two
\* status tags and writes no metafield; for a ship-ready, in-transit or
\* delivered item it writes nothing to the order; an item of any other status
\* never gets to the action step.
C29_StatusActionTable ==
    [][/\ (ActionDone /\ ploc.status \in ConfirmStatuses) =>
              /\ orderTags' = orderTags
              /\ [key |-> "purchase_confirmed", value |-> "true"] \in orderMetafields'
              /\ "purchase_confirmed_at" \in MetafieldKeys(orderMetafields')
              /\ MetafieldKeys(orderMetafields') \ MetafieldKeys(orderMetafields)
                    \subseteq ConfirmationKeys
       /\ (ActionDone /\ ploc.status \in CancelStatuses) =>
              /\ orderTags' = orderTags \cup
                    {<<"BunjangStatus-", ploc.status>>,
                     <<"BunjangOrder-", ToString(ploc.order.id), ploc.status>>}
              /\ orderMetafields' = orderMetafields
       /\ (ActionDone /\ ploc.status \in FulfillmentStatuses) =>
              /\ orderTags' = orderTags
              /\ orderMetafields' = orderMetafields
       /\ ppc' = "action" =>
              ploc'.status \in FulfillmentStatuses \cup ConfirmStatuses \cup CancelStatuses
      ]_vars

\* A purchase confirmation was written.
C29_Witness ==
    /\ ppc = "stamp"
    /\ ploc.status \in ConfirmStatuses
    /\ [key |-> "purchase_confirmed", value |-> "true"] \in orderMetafields
\* A refund was tagged.
C29_WitnessTagged ==
    /\ ppc = "stamp"
    /\ ploc.status = "REFUNDED"
    /\ <<"BunjangStatus-", "REFUNDED">> \in orderTags
\* A delivery went through the fulfillment stub.
C29_WitnessFulfillment ==
    /\ ppc = "stamp"
    /\ ploc.status = "DELIVERY_COMPLETED"
    /\ orderMetafields = {}
\* An item of a status without a branch is about to be stamped.
C29_WitnessNoBranch ==
    /\ ppc = "stamp"
    /\ ploc.status \in OtherStatuses

\* ---------------------------------------------------------------------------
\* The cached quantity of the ProductLink
\* ---------------------------------------------------------------------------

LastSync(syncLog) == syncLog[Len(syncLog)]

\* The step completes a call of syncBunjangInventoryToShopify of invocation h
\* on a linked product, by a return of true or by raising.
SyncCompleted(h) ==
    /\ Len(loc'[h].syncLog) = Len(loc[h].syncLog) + 1
    /\ LastSync(loc'[h].syncLog).linked
    /\ LastSync(loc'[h].syncLog).out \in {"true", "throw"}

\* C30: when a call of syncBunjangInventoryToShopify(pid, q) on a linked product
\* returns true or raises, the quantity cached in the product's SyncedProduct
\* equals the quantity Shopify shows for it, and after a return of true both
\* are q.
C30_CachedEqualsPublished ==
    [][\A h \in Procs :
          SyncCompleted(h) =>
              LET e == LastSync(loc'[h].syncLog)
              IN  /\ syncedProducts'[e.pid].bunjangQuantity = shopifyInventory'[e.pid]
                  /\ e.out = "true" => shopifyInventory'[e.pid] = e.quantity
      ]_vars

\* ---------------------------------------------------------------------------
\* Decrement and restore of the order events
\* ---------------------------------------------------------------------------

SyncPcs == {"sync_find", "sync_read", "sync_push", "sync_save"}

\* Invocation h is inside the call of syncBunjangInventoryToShopify its topic
\* handler made for the line item in hand.
HandlerSync(h) == hpc[h] \in SyncPcs /\ loc[h].caller = "handler"

\* The step is the return of checkAndSyncBunjangInventory to the topic handler
\* of h with the quantity v.
CasReturned(h, v) ==
    /\ loc[h].kind \in {"create", "cancel"}
    /\ \E e \in casLog' \ casLog : e.proc = h /\ e.outcome = "returned" /\ e.value = v

\* C31: the target the order-creation handler hands to
\* syncBunjangInventoryToShopify for a linked line item of quantity n is
\* max(0, q - n), and the one of the order-cancellation handler is q + n, where
\* q is what checkAndSyncBunjangInventory returned for the item's product; a
\* returned q >= 0 is always followed by that call; a push made inside the call
\* publishes the target; and an orders/updated request without cancelled_at
\* makes no remote call and no push at all.
C31_DecrementAndRestore ==
    [][\A h \in Procs :
          /\ HandlerSync(h) =>
                LET q == loc[h].currentStock
                    n == loc[h].item.quantity
                IN  /\ loc[h].kind \in {"create", "cancel"}
                    /\ q = (IF loc[h].fetched = Unset THEN -1 ELSE loc[h].fetched)
                    /\ loc[h].kind = "create" =>
                          /\ q >= 0
                          /\ loc[h].target = (IF q - n > 0 THEN q - n ELSE 0)
                    /\ loc[h].kind = "cancel" => loc[h].target = q + n
          /\ \A v \in 0..MaxStock :
                CasReturned(h, v) =>
                    /\ hpc'[h] = "sync_find"
                    /\ loc'[h].caller = "handler"
                    /\ loc'[h].currentStock = v
                    /\ loc'[h].item = loc[h].item
          /\ (HandlerSync(h) /\ hpc[h] = "sync_push" /\ hpc'[h] = "sync_save") =>
                shopifyInventory'[loc[h].pid] = loc[h].target
          /\ (req[h].route = "orders/updated" /\ loc[h].kind # "cancel") =>
                /\ hpc[h] \in {"received", "handler", "responded"}
                /\ \A e \in effects : e.proc # h
                /\ shopifyInventory' = shopifyInventory
      ]_vars

\* The creation handler published 2 - 1.
C31_Witness ==
    /\ hpc["h1"] = "sync_save"
    /\ loc["h1"].caller = "handler"
    /\ loc["h1"].kind = "create"
    /\ loc["h1"].currentStock = 2
    /\ loc["h1"].item.quantity = 1
    /\ shopifyInventory[101] = 1
\* The creation handler published 0 for 1 - 2.
C31_WitnessFloor ==
    /\ hpc["h1"] = "sync_save"
    /\ loc["h1"].caller = "handler"
    /\ loc["h1"].kind = "create"
    /\ loc["h1"].currentStock = 1
    /\ loc["h1"].item.quantity = 2
    /\ shopifyInventory[101] = 0
\* The cancellation handler published 1 + 2.
C31_WitnessRestore ==
    /\ hpc["h1"] = "sync_save"
    /\ loc["h1"].caller = "handler"
    /\ loc["h1"].kind = "cancel"
    /\ loc["h1"].currentStock = 1
    /\ loc["h1"].item.quantity = 2
    /\ shopifyInventory[101] = 3
\* An update without cancelled_at was answered.
C31_WitnessNotCancelled ==
    /\ req["h1"].route = "orders/updated"
    /\ loc["h1"].kind # "cancel"
    /\ hpc["h1"] = "responded"
    /\ resp["h1"] = 200

\* The step is the 200 response of the cancellation event h2 for the order
\* whose creation event h1 was answered 200 before h2 was received: both went
\* through the same single line item, of a linked product, and both read the
\* product's quantity with checkAndSyncBunjangInventory.
CancelledAfterCreated ==
    /\ req["h1"].route = "orders/create"
    /\ req["h2"].route = "orders/updated"
    /\ hpc["h1"] = "responded" /\ resp["h1"] = 200
    /\ hpc["h2"] # "responded" /\ hpc'["h2"] = "responded" /\ resp'["h2"] = 200
    /\ ~overlapped'
    /\ loc'["h2"].kind = "cancel"
    /\ Len(loc["h1"].lineItems) = 1
    /\ Len(loc'["h2"].lineItems) = 1
    /\ loc'["h2"].lineItems[1].item = loc["h1"].lineItems[1].item
    /\ FindByShopifyProduct(loc["h1"].lineItems[1].item.product_id) # NoPid
    /\ \A h \in Procs :
          \E e \in casLog' : e.proc = h /\ e.outcome = "returned" /\ e.value >= 0

\* C32: when the cancellation event of an order has been handled after its
\* creation event, Shopify shows for the line item's product the quantity it
\* showed before the creation event was handled.
C32_RestoreUndoesDecrement ==
    [][CancelledAfterCreated =>
          LET first == loc["h1"].lineItems[1]
              pid == FindByShopifyProduct(first.item.product_id)
          IN  shopifyInventory'[pid] = first.published[pid]
      ]_vars

\* ---------------------------------------------------------------------------
\* Created marketplace orders and the tags of the Shopify order
\* ---------------------------------------------------------------------------

\* C33: when processShopifyOrderForBunjang has returned, the Shopify order
\* carries, for every marketplace order the invocation created, the tag
\* BunjangOrderID-<id> that the status poller's query looks for.
C33_CreatedOrdersAreDiscoverable ==
    \A j \in Jobs :
        jpc[j] = "returned" =>
            \A k \in 1..Len(bunjangOrders) :
                bunjangOrders[k].job = j =>
                    /\ BunjangOrderIdTag(bunjangOrders[k].id) \in orderTags
                    /\ OrderFound(bunjangOrders[k].id, orderTags)

\* The step writes a creation-failure tag (CreateFail or the tag of a domain
\* error code) for the line item job j has in hand.
WritesCreationFailureTag(j) ==
    /\ jpc[j] = "update"
    /\ \E p \in FailureTagTable :
          PidTag(jloc[j].pid, p[2]) \in (orderTags' \ orderTags) \cap jloc[j].write.tags

\* C34: a creation-failure tag is written only for a line item for which the
\* invocation created no marketplace order.
C34_FailureTagOnlyAfterFailedCreate ==
    [][\A j \in Jobs :
          WritesCreationFailureTag(j) =>
              ~\E k \in 1..Len(bunjangOrders) :
                    bunjangOrders[k].job = j /\ bunjangOrders[k].item = jloc[j].i
      ]_vars

\* ---------------------------------------------------------------------------
\* Product-detail fetch, mapping and the create-order request
\* ---------------------------------------------------------------------------

\* The linked line items invocation j is done with and made no create-order
\* request for: their detail fetch failed or returned nothing, or the mapper
\* returned no payload.
ItemsWithoutRequest(j) ==
    {k \in jloc[j].attempted :
        /\ (JobFinished(j) \/ jloc[j].i > k)
        /\ \A c \in 1..Len(jloc[j].calls) :
              ~(jloc[j].calls[c].call = "createBunjangOrderV2" /\ jloc[j].calls[c].item = k)}

\* C35: a create-order request is about to be sent for a line item only when the
\* call before it is the resolved product-detail fetch of that item and the
\* payload is not null; and for a line item left without a request the order
\* carries a NotFound, MapFail or Exception tag of its product id, and the
\* invocation went on: it did not throw.
C35_CreateOnlyAfterFetchAndMap ==
    \A j \in Jobs :
        /\ jpc[j] = "create" =>
              /\ LastCall(j).call = "getBunjangProductDetails"
              /\ LastCall(j).ok
              /\ LastCall(j).item = jloc[j].i
              /\ jloc[j].payload # NoPayload
        /\ \A k \in ItemsWithoutRequest(j) :
              /\ \E s \in {"NotFound", "MapFail", "Exception"} :
                    PidTag(substring(shopifyOrder.line_items[k], 3), s) \in orderTags
              /\ jpc[j] # "thrown"

\* ---------------------------------------------------------------------------
\* The life cycle of a webhook request
\* ---------------------------------------------------------------------------

\* Received: the request waits for verifyWebhook, which verifies it in one step.
Received(h) == hpc[h] = "received"
\* Authenticated: verifyWebhook has called next().
Authenticated(h) == hpc[h] = "handler"
\* Dispatched: the topic handler has the event and is working on it.
Dispatched(h) == hpc[h] \in HandlerPcs \ {"handler"}
Answered(h) == hpc[h] = "responded"

\* One step of the life cycle of the topic request h.
LifecycleStep(h) ==
    /\ Received(h) =>
          /\ hpc'[h] \in {"received", "handler", "responded"}
          /\ hpc'[h] = "responded" =>
                /\ resp'[h] \in {401, 400, 500}
                /\ effects' = effects
    /\ Authenticated(h) =>
          /\ hpc'[h] \in HandlerPcs \cup {"responded"}
          /\ hpc'[h] = "responded" => resp'[h] \in {200, 500}
    /\ Dispatched(h) =>
          /\ hpc'[h] \in (HandlerPcs \ {"handler"}) \cup {"responded"}
          /\ hpc'[h] = "responded" => resp'[h] = 200
    /\ Answered(h) =>
          /\ hpc'[h] = "responded"
          /\ resp'[h] = resp[h]
          /\ req'[h] = req[h]
          /\ \A e \in effects' \ effects : e.proc # h

\* C36: a request to a webhook topic is verified in the step after its receipt
\* and is then either rejected, answered 401, 400 or 500 without any effect, or
\* authenticated and handed to its topic handler, which answers it; an answered
\* request stays answered, with the same status and without further effect; and
\* every received request is answered in the end.
C36_RequestLifecycle ==
    /\ [][\A h \in Procs : IsWebhook(h) => LifecycleStep(h)]_vars
    /\ \A h \in Procs : (IsWebhook(h) /\ ~Answered(h)) ~> Answered(h)

\* A request was rejected by the middleware.
C36_Witness ==
    /\ IsWebhook("h1")
    /\ Answered("h1")
    /\ resp["h1"] = 401
    /\ effects = {}
\* A request was authenticated, dispatched and answered after a push.
C36_WitnessDispatched ==
    /\ IsWebhook("h1")
    /\ Answered("h1")
    /\ resp["h1"] = 200
    /\ \E e \in effects : e.proc = "h1" /\ e.kind = "updateInventoryLevel"

====
